---- MODULE Spec2Model ----
(***************************************************************************)
(* Route analysis engine of mcp-agent-transport (src/agent/tools.py):      *)
(* the ISO duration parser, the single-route analyzer and the multi-city   *)
(* route optimizer; and the services around it: search_all_transport with  *)
(* its three mode searches, the Amadeus client (src/apis/amadeus.py) and   *)
(* the itinerary store (src/mcp_client/client.py).                         *)
(*                                                                         *)
(* Representation.                                                         *)
(*   - A Python string that the code inspects character by character (a    *)
(*     duration) is a sequence of one-character strings.                   *)
(*   - An optional JSON field is Absent (key missing or null) or Some(v).  *)
(*   - A price is a fixed-point number in hundredths (45.00 is 4500), so   *)
(*     that the "%.2f" rendering of a price difference is computed.        *)
(*   - float('inf') is the value Inf; finite minutes are naturals.         *)
(*   - id(obj) is a choice of distinct addresses, one per list element,    *)
(*     made afresh by every call.                                          *)
(*   - A date string "YYYY-MM-DD" is the triple <<year, month, day>>.      *)
(*   - search_all_transport is the collaborator of the optimizer: its      *)
(*     answers are fixed by the variable leg_search before the call.       *)
(***************************************************************************)
EXTENDS Integers, Sequences, FiniteSets, TLC

VARIABLES
    data,        \* analyze_best_routes: the decoded argument all_options_json
    pc,          \* analyze_best_routes: "start", "done" (returned once), "rerun" (returned twice)
    result,      \* analyze_best_routes: what the first call returned
    again,       \* analyze_best_routes: what the second call on the same argument returned
    iso_duration,\* parse_iso_duration_to_minutes: its argument
    ppc,         \* parse_iso_duration_to_minutes: "start", "done", or "idle"
    minutes,     \* parse_iso_duration_to_minutes: its return value
    cities_json, \* optimize_multi_city_route: the decoded argument cities_json
    departure_date,        \* optimize_multi_city_route: its argument
    leg_search,  \* what search_all_transport answers to each search
    opc,         \* optimize_multi_city_route: "start", "search", "waiting", "rank", "done", or "idle"
    all_permutations,      \* optimize_multi_city_route: local
    perm,        \* position of the loop "for perm in all_permutations"
    leg,         \* position of the loop "for i in range(len(route_cities) - 1)", from 1
    legs,        \* optimize_multi_city_route: local
    total_price, \* optimize_multi_city_route: local
    total_duration_minutes,\* optimize_multi_city_route: local
    current_date,\* optimize_multi_city_route: local
    complete_routes,       \* optimize_multi_city_route: local
    searches,    \* every search_all_transport.invoke issued so far, in order
    in_flight,   \* number of searches issued and not yet answered
    leg_data,    \* optimize_multi_city_route: local, the last answer decoded
    route_valid, \* optimize_multi_city_route: local
    best_leg,    \* optimize_multi_city_route: local, as a position in leg_data["options"]
    oresult,     \* optimize_multi_city_route: what it returned
    sw,          \* search_all_transport: its arguments and what the providers answer
    spc,         \* search_all_transport: "flights", "trains", "buses", "sort", "done", or "idle"
    all_options, \* search_all_transport: local
    mode_calls,  \* every mode search invoked by search_all_transport, in order
    sresult,     \* search_all_transport: what it returned
    files,       \* SimplifiedFilesystemTools: the files of base_path, name to text
    files_before,\* the files before the last operation of the store
    fs_op,       \* the last operation of the store, its arguments and what it returned
    ever_saved,  \* the names save_itinerary was ever called with
    now,         \* AmadeusFlightAPI: time.time(), in quarters of a second
    last_request_time,     \* AmadeusFlightAPI._last_request_time
    iata_cache,  \* AmadeusFlightAPI._iata_cache
    mpc,         \* AmadeusFlightAPI: where each caller is in its call
    mcall,       \* AmadeusFlightAPI: the method, argument and locals of the call of each caller
    latest_request,\* the latest request sent to the provider
    ret          \* AmadeusFlightAPI: what the step just taken returned to a caller

avars == <<data, pc, result, again>>
pvars == <<iso_duration, ppc, minutes>>
ovars == <<cities_json, departure_date, leg_search, opc, all_permutations, perm,
           leg, legs, total_price, total_duration_minutes, current_date,
           complete_routes, searches, in_flight, leg_data, route_valid, best_leg,
           oresult>>
svars == <<sw, spc, all_options, mode_calls, sresult>>
fvars == <<files, files_before, fs_op, ever_saved>>
mvars == <<now, last_request_time, iata_cache, mpc, mcall, latest_request, ret>>
xvars == <<svars, fvars, mvars>>
vars == <<avars, pvars, ovars, xvars>>

(***************************************************************************)
(* Bounds.                                                                 *)
(***************************************************************************)
MaxOffers == 3
MaxDurLen == 6

(***************************************************************************)
(* Python values.                                                          *)
(***************************************************************************)
Absent == <<>>
Some(v) == <<v>>
Has(f) == f # <<>>
Val(f) == f[1]

\* float('inf'): the value parse_iso_duration_to_minutes returns on no match
Inf == -1

\* Python's < on floats where either side may be float('inf')
FloatLess(a, b) == IF a = Inf THEN FALSE ELSE IF b = Inf THEN TRUE ELSE a < b

(***************************************************************************)
(* parse_iso_duration_to_minutes: re.match(r'PT(?:(\d+)H)?(?:(\d+)M)?', s) *)
(***************************************************************************)
Digits == {"0", "1", "2", "3", "4", "5", "6", "7", "8", "9"}

DigitVal(c) ==
    CASE c = "0" -> 0 [] c = "1" -> 1 [] c = "2" -> 2 [] c = "3" -> 3
      [] c = "4" -> 4 [] c = "5" -> 5 [] c = "6" -> 6 [] c = "7" -> 7
      [] c = "8" -> 8 [] c = "9" -> 9

\* \d+ is greedy: the length of the longest run of digits of s that starts at i
RECURSIVE DigitRun(_, _)
DigitRun(s, i) ==
    IF i <= Len(s) /\ s[i] \in Digits THEN 1 + DigitRun(s, i + 1) ELSE 0

\* int(group): the decimal value of the n digits of s that start at i
RECURSIVE IntOf(_, _, _)
IntOf(s, i, n) ==
    IF n = 0 THEN 0 ELSE 10 * IntOf(s, i, n - 1) + DigitVal(s[i + n - 1])

\* the optional group (?:(\d+)<unit>)? tried at position i of s: a run of
\* digits followed by the unit letter matches and is consumed; anything else
\* leaves the group unmatched (None) and the position where it was
RegexGroup(s, i, unit) ==
    LET n == DigitRun(s, i)
    IN  IF n > 0 /\ i + n <= Len(s) /\ s[i + n] = unit
        THEN [matched |-> TRUE, value |-> IntOf(s, i, n), next |-> i + n + 1]
        ELSE [matched |-> FALSE, value |-> 0, next |-> i]

\* re.match anchors the pattern at the start of the string only
RegexMatches(s) == Len(s) >= 2 /\ s[1] = "P" /\ s[2] = "T"

parse_iso_duration_to_minutes(s) ==
    IF ~RegexMatches(s)
    THEN Inf
    ELSE LET hours == RegexGroup(s, 3, "H")
             mins  == RegexGroup(s, hours.next, "M")
         IN  hours.value * 60 + mins.value

(***************************************************************************)
(* Inputs of the duration parser: every string over DurAlphabet of at most *)
(* MaxDurLen characters, and the strings the specification names.          *)
(***************************************************************************)
DurAlphabet == {"P", "T", "H", "M", "2", "x"}

\* the strings of n characters
StringsOfLen(n) == [1..n -> DurAlphabet]

PT2H30M == <<"P", "T", "2", "H", "3", "0", "M">>
PT8H0M  == <<"P", "T", "8", "H", "0", "M">>
PT12H0M == <<"P", "T", "1", "2", "H", "0", "M">>
Garbage == <<"g", "a", "r", "b", "a", "g", "e">>
PT1Hx   == <<"P", "T", "1", "H", "x">>
P1DT2H  == <<"P", "1", "D", "T", "2", "H">>

NamedDurations == {PT2H30M, PT8H0M, PT12H0M, Garbage, PT1Hx, P1DT2H}

(***************************************************************************)
(* Offers.  An offer is a JSON object; the analyzer reads its price,       *)
(* currency and duration and passes everything else through.               *)
(***************************************************************************)
Offer(t, p, c, d) == [type |-> t, price |-> p, currency |-> c, duration |-> d]

PriceValues == {Absent, Some(0)}
DurationValues == {Absent, Some(PT8H0M), Some(Garbage)}

OfferPool ==
    {Offer("train", p, Absent, d) : p \in PriceValues, d \in DurationValues}
    \cup {Offer("train", Some(9500), Absent, Some(PT8H0M)),
          Offer("bus", Some(4500), Absent, Some(PT12H0M)),
          Offer("flight", Some(12000), Absent, Some(PT2H30M)),
          Offer("flight", Some(4505), Some("USD"), Some(PT1Hx))}

\* the lists of n offers
OfferLists(n) == [1..n -> OfferPool]

\* json.loads(all_options_json): not JSON at all, or an object without the key "options"
NoOptionInputs ==
    {[valid |-> FALSE, hasOptions |-> FALSE, options |-> <<>>],
     [valid |-> TRUE, hasOptions |-> FALSE, options |-> <<>>]}

\* id(): the addresses of the n live list elements, all different, in any order
IdMaps(n) == Permutations(1..n)

(***************************************************************************)
(* analyze_best_routes.  List elements are named by their position; the    *)
(* object the code holds in `cheapest`, `fastest` or `opt` is the element  *)
(* at that position, and id(obj) is ids[position].                         *)
(***************************************************************************)
PositionsOf(options) == [i \in 1..Len(options) |-> i]

\* variant of PriceIsNotNone: the price tested for truth, so that 0 counts as no price
PriceIsTruthy(opt) == Has(opt.price) /\ Val(opt.price) # 0

\* opt.get('price') is not None
PriceIsNotNone(opt) == Has(opt.price)

\* opt.get('duration') as a condition: the key is present and the string is not empty
DurationTruthy(opt) == Has(opt.duration) /\ Val(opt.duration) # <<>>

\* [opt for opt in options if opt.get('price') is not None], as positions
options_with_price(options) ==
    SelectSeq(PositionsOf(options), LAMBDA p : PriceIsNotNone(options[p]))

\* variant of options_with_duration: the timed view filtered out of the priced view
options_with_duration_of_priced(options) ==
    SelectSeq(PositionsOf(options),
              LAMBDA p : Has(options[p].price) /\ Has(options[p].duration)
                         /\ Val(options[p].duration) # <<>>
                         /\ parse_iso_duration_to_minutes(Val(options[p].duration)) # Inf)

\* [opt for opt in options if opt.get('duration') and parse(...) != float('inf')]
options_with_duration(options) ==
    SelectSeq(PositionsOf(options),
              LAMBDA p : DurationTruthy(options[p])
                         /\ parse_iso_duration_to_minutes(Val(options[p].duration)) # Inf)

\* min(seq, key=...): the scan keeps the first element and replaces it only
\* by an element whose key is strictly smaller
RECURSIVE MinIndexFrom(_, _, _)
MinIndexFrom(keys, k, best) ==
    IF k > Len(keys) THEN best
    ELSE MinIndexFrom(keys, k + 1, IF FloatLess(keys[k], keys[best]) THEN k ELSE best)

PyMin(keys) == MinIndexFrom(keys, 2, 1)

\* cheapest = min(options_with_price, key=lambda x: x['price']), as a position
CheapestOf(options) ==
    LET priced == options_with_price(options)
    IN  priced[PyMin([k \in 1..Len(priced) |-> Val(options[priced[k]].price)])]

\* fastest = None, or min(options_with_duration, key=parsed minutes); 0 is None
FastestOf(options) ==
    LET timed == options_with_duration(options)
    IN  IF timed = <<>> THEN 0
        ELSE timed[PyMin([k \in 1..Len(timed) |->
                 parse_iso_duration_to_minutes(Val(options[timed[k]].duration))])]

\* recommended_ids
RecommendedIds(ids, cheapest, fastest) ==
    {ids[cheapest]}
    \cup (IF fastest # 0 /\ ids[fastest] # ids[cheapest] THEN {ids[fastest]} ELSE {})

\* f"{n:02d}" for the hundredths of "%.2f"
TwoDigits(n) == IF n < 10 THEN "0" \o ToString(n) ELSE ToString(n)

\* variant of FormatPrice: the hundredths not padded to two digits
FormatPriceUnpadded(d) == ToString(d \div 100) \o "." \o ToString(d % 100)

\* f"{price_diff:.2f}"
FormatPrice(d) == ToString(d \div 100) \o "." \o TwoDigits(d % 100)

\* opt.get('currency', 'EUR')
CurrencyOf(opt) == IF Has(opt.currency) THEN Val(opt.currency) ELSE "EUR"

\* variant of PriceReasons: the comparison not strict (price_diff >= 0)
PriceReasonsNotStrict(opt, cheapestOpt) ==
    IF Has(opt.price)
    THEN LET price_diff == Val(opt.price) - Val(cheapestOpt.price)
         IN  IF price_diff >= 0
             THEN <<[kind |-> "price",
                     text |-> FormatPrice(price_diff) \o " " \o CurrencyOf(opt)
                              \o " more expensive than cheapest"]>>
             ELSE <<>>
    ELSE <<>>

\* the price comparison of the discard loop: the reasons it appends
PriceReasons(opt, cheapestOpt) ==
    IF PriceIsNotNone(opt)
    THEN LET price_diff == Val(opt.price) - Val(cheapestOpt.price)
         IN  IF price_diff > 0
             THEN <<[kind |-> "price",
                     text |-> FormatPrice(price_diff) \o " " \o CurrencyOf(opt)
                              \o " more expensive than cheapest"]>>
             ELSE <<>>
    ELSE <<>>

\* f"{hours_diff}h {mins_diff}m" if hours_diff > 0 else f"{mins_diff}m"
FormatTime(time_diff) ==
    LET hours_diff == time_diff \div 60
        mins_diff  == time_diff % 60
    IN  IF hours_diff > 0
        THEN ToString(hours_diff) \o "h " \o ToString(mins_diff) \o "m"
        ELSE ToString(mins_diff) \o "m"

\* the duration comparison of the discard loop is entered
DurationCompared(opt, fastest) == DurationTruthy(opt) /\ fastest # 0

\* the duration comparison raises: opt_minutes is inf, inf > fastest_minutes,
\* time_diff is inf, inf // 60 is nan and int(nan) raises ValueError
DurationRaises(opt, fastest) ==
    /\ DurationCompared(opt, fastest)
    /\ parse_iso_duration_to_minutes(Val(opt.duration)) = Inf

\* the duration comparison of the discard loop: the reasons it appends
DurationReasons(opt, fastest, fastestOpt) ==
    IF DurationCompared(opt, fastest) /\ ~DurationRaises(opt, fastest)
    THEN LET opt_minutes == parse_iso_duration_to_minutes(Val(opt.duration))
             fastest_minutes == parse_iso_duration_to_minutes(Val(fastestOpt.duration))
         IN  IF opt_minutes > fastest_minutes
             THEN <<[kind |-> "duration",
                     text |-> FormatTime(opt_minutes - fastest_minutes)
                              \o " slower than fastest"]>>
             ELSE <<>>
    ELSE <<>>

\* reasons of one discarded option
ReasonsOf(opt, cheapestOpt, fastest, fastestOpt) ==
    LET reasons == PriceReasons(opt, cheapestOpt) \o DurationReasons(opt, fastest, fastestOpt)
    IN  IF reasons = <<>>
        THEN <<[kind |-> "fallback", text |-> "Not the cheapest or fastest option"]>>
        ELSE reasons

\* variant of DiscardedPositions: the loop runs over the objects in address order
DiscardedByAddress(options, ids, cheapest, fastest) ==
    SortSeq(SelectSeq(PositionsOf(options),
                      LAMBDA p : ids[p] \notin RecommendedIds(ids, cheapest, fastest)),
            LAMBDA p, q : ids[p] < ids[q])

\* the positions the discard loop appends, in list order
DiscardedPositions(options, ids, cheapest, fastest) ==
    SelectSeq(PositionsOf(options),
              LAMBDA p : ids[p] \notin RecommendedIds(ids, cheapest, fastest))

\* variant of SameOption: true whenever both recommendations exist
SameOptionBothExist(ids, cheapest, fastest) == fastest # 0

\* "same_option": id(cheapest) == id(fastest) if (cheapest and fastest) else False
SameOption(ids, cheapest, fastest) ==
    IF fastest # 0 THEN ids[cheapest] = ids[fastest] ELSE FALSE

\* an error payload: {"error": ..., "message": ...}
ErrorResult(msg) ==
    [keys |-> {"error", "message"}, error |-> msg,
     cheapest |-> Absent, fastest |-> Absent, same_option |-> FALSE,
     discarded |-> <<>>, cheapest_at |-> 0, fastest_at |-> 0,
     total_options_analyzed |-> 0, n_with_price |-> 0, n_with_duration |-> 0]

\* the payload of a successful analysis; cheapest_at, fastest_at and the `at`
\* of a discarded entry name the list element the object is
Recommendation(options, ids) ==
    LET cheapest == CheapestOf(options)
        fastest  == FastestOf(options)
        fastestOpt == IF fastest # 0 THEN options[fastest] ELSE options[cheapest]
        out == DiscardedPositions(options, ids, cheapest, fastest)
    IN  IF \E k \in 1..Len(out) : DurationRaises(options[out[k]], fastest)
        THEN ErrorResult("Analysis failed")
        ELSE [keys |-> {"analysis", "recommended", "discarded"}, error |-> "",
              cheapest |-> Some(options[cheapest]),
              fastest |-> IF fastest # 0 THEN Some(options[fastest]) ELSE Absent,
              same_option |-> SameOption(ids, cheapest, fastest),
              discarded |-> [k \in 1..Len(out) |->
                  [option |-> options[out[k]], at |-> out[k],
                   reasons |-> ReasonsOf(options[out[k]], options[cheapest], fastest, fastestOpt)]],
              cheapest_at |-> cheapest, fastest_at |-> fastest,
              total_options_analyzed |-> Len(options),
              n_with_price |-> Len(options_with_price(options)),
              n_with_duration |-> Len(options_with_duration(options))]

\* variant of analyze_best_routes: one error payload for "no options" and "no prices"
analyze_one_error(d, ids) ==
    IF ~d.valid THEN ErrorResult("Invalid JSON input")
    ELSE IF ~d.hasOptions \/ d.options = <<>> \/ options_with_price(d.options) = <<>>
    THEN ErrorResult("No options provided to analyze")
    ELSE Recommendation(d.options, ids)

analyze_best_routes(d, ids) ==
    IF ~d.valid THEN ErrorResult("Invalid JSON input")
    ELSE IF ~d.hasOptions \/ d.options = <<>>
    THEN ErrorResult("No options provided to analyze")
    ELSE IF options_with_price(d.options) = <<>>
    THEN ErrorResult("No options with valid prices")
    ELSE Recommendation(d.options, ids)

NoResult == ErrorResult("")

(***************************************************************************)
(* optimize_multi_city_route: its inputs.                                  *)
(***************************************************************************)
MaxCities == 4

CityNames == <<"Paris", "Madrid", "Berlin", "Rome", "Vienna", "Lisbon">>
CityIndex(city) == CHOOSE k \in 1..Len(CityNames) : CityNames[k] = city

\* json.loads(cities_json): not JSON at all, a JSON value that is not a list,
\* or a list of n distinct cities
CityInputs ==
    {[valid |-> FALSE, isList |-> FALSE, cities |-> <<>>],
     [valid |-> TRUE, isList |-> FALSE, cities |-> <<>>]}
    \cup {[valid |-> TRUE, isList |-> TRUE, cities |-> SubSeq(CityNames, 1, n)] :
             n \in 0..MaxCities}

\* departure_date: before a leap day, before the end of a year
StartDates == {<<2024, 2, 27>>, <<2025, 12, 30>>}

\* an offer as a provider emits it: the fields the engine reads, and a payload
LegOffer(t, p, d, x) ==
    [type |-> t, price |-> p, currency |-> Some("EUR"), duration |-> d,
     details |-> [segments |-> x]]

\* what search_all_transport returns, decoded: an error payload has no key
\* "options"; a list of options is sorted by (price or inf), as line 350 leaves it
SearchFailed == [hasOptions |-> FALSE, options |-> <<>>]
NothingFound == [hasOptions |-> TRUE, options |-> <<>>]
Found(options) == [hasOptions |-> TRUE, options |-> options]

BusCheapSlow  == LegOffer("bus", Some(4500), Some(PT12H0M), <<"FLX1">>)
FlightDearFast == LegOffer("flight", Some(12000), Some(PT2H30M), <<"AF1", "LH2">>)
TrainMid      == LegOffer("train", Some(9500), Some(PT8H0M), <<"ICE3">>)
TrainSamePrice == LegOffer("train", Some(4500), Some(PT8H0M), <<"TGV4">>)
BusNoDuration == LegOffer("bus", Some(3005), Absent, <<"FLX5">>)
TrainGarbage  == LegOffer("train", Some(2000), Some(Garbage), <<"RE6">>)
BusFree       == LegOffer("bus", Some(0), Some(PT2H30M), <<"FLX7">>)
TrainNoPrice  == LegOffer("train", Absent, Some(PT8H0M), <<"ICE8">>)

\* answers in which some offer has a positive price and every duration parses
PricedAnswers ==
    <<Found(<<BusCheapSlow, FlightDearFast>>),
      Found(<<TrainSamePrice, BusCheapSlow, TrainMid, TrainNoPrice>>),
      Found(<<BusNoDuration, TrainMid>>)>>

\* answers in which no offer has a price
UnpricedAnswers ==
    <<SearchFailed,
      NothingFound,
      Found(<<TrainNoPrice>>)>>

\* answers in which an offer has the price 0
FreeAnswers ==
    <<Found(<<BusFree>>),
      Found(<<TrainMid, BusFree, TrainNoPrice>>)>>

\* answers in which some offer has a positive price and the duration of the
\* cheapest does not always parse
GarbageAnswers ==
    <<Found(<<TrainGarbage, FlightDearFast>>),
      Found(<<BusCheapSlow, FlightDearFast>>),
      Found(<<BusNoDuration, TrainMid>>)>>

\* every kind of answer
AllAnswers ==
    PricedAnswers \o UnpricedAnswers \o FreeAnswers
    \o <<Found(<<TrainGarbage, FlightDearFast>>)>>

AnswerTables == {"priced", "unpriced", "free", "garbage", "all"}

AnswersOf(t) ==
    IF t = "priced" THEN PricedAnswers
    ELSE IF t = "unpriced" THEN UnpricedAnswers
    ELSE IF t = "free" THEN FreeAnswers
    ELSE IF t = "garbage" THEN GarbageAnswers
    ELSE AllAnswers

\* how the answer varies with the origin, the destination and the day
Variations == {<<0, 0, 0>>, <<1, 2, 0>>, <<1, 2, 1>>}

\* the behaviours of search_all_transport: the answer to a search is read from
\* a table at a position that depends on the origin, the destination and the day
LegSearches ==
    {[answers |-> t, o |-> o, a |-> v[1], b |-> v[2], c |-> v[3]] :
        t \in AnswerTables, o \in {0, 1, 2}, v \in Variations}

\* search_all_transport.invoke({"origin", "destination", "departure_date"}), decoded
search_all_transport_invoke(w, origin, destination, date) ==
    AnswersOf(w.answers)[((w.o + w.a * CityIndex(origin) + w.b * CityIndex(destination)
                           + w.c * date[3]) % Len(AnswersOf(w.answers))) + 1]

(***************************************************************************)
(* optimize_multi_city_route: its steps.                                   *)
(***************************************************************************)
RemoveAt(s, k) == SubSeq(s, 1, k - 1) \o SubSeq(s, k + 1, Len(s))

\* list(itertools.permutations(cities)): the orderings by position, in
\* lexicographic order of the positions
RECURSIVE permutations(_), PermutationsFrom(_, _)
PermutationsFrom(s, k) ==
    IF k > Len(s) THEN <<>>
    ELSE LET rest == permutations(RemoveAt(s, k))
         IN  [j \in 1..Len(rest) |-> <<s[k]>> \o rest[j]] \o PermutationsFrom(s, k + 1)

permutations(s) == IF s = <<>> THEN << <<>> >> ELSE PermutationsFrom(s, 1)

\* a Gregorian year with a 29th of February
IsLeap(y) == (y % 4 = 0 /\ y % 100 # 0) \/ y % 400 = 0

DaysInMonth(y, m) ==
    IF m = 2 THEN (IF IsLeap(y) THEN 29 ELSE 28)
    ELSE IF m \in {4, 6, 9, 11} THEN 30 ELSE 31

\* variant of NextDay: the day of the month incremented, the month never turned
NextDayOfMonth(date) == <<date[1], date[2], date[3] + 1>>

\* (datetime.strptime(current_date, "%Y-%m-%d") + timedelta(days=1)).strftime("%Y-%m-%d")
NextDay(date) ==
    IF date[3] < DaysInMonth(date[1], date[2]) THEN <<date[1], date[2], date[3] + 1>>
    ELSE IF date[2] < 12 THEN <<date[1], date[2] + 1, 1>>
    ELSE <<date[1] + 1, 1, 1>>

\* a + b on floats
FloatAdd(a, b) == IF a = Inf \/ b = Inf THEN Inf ELSE a + b

\* opt.get('price') as a condition: the key is present and the number is not 0
LegPriceTruthy(opt) == Has(opt.price) /\ Val(opt.price) # 0

\* [opt for opt in leg_data["options"] if opt.get('price')], as positions
leg_options_with_price(options) ==
    SelectSeq(PositionsOf(options), LAMBDA p : LegPriceTruthy(options[p]))

\* "options" not in leg_data or not leg_data["options"], or not options_with_price
LegRejected(answer) ==
    \/ ~answer.hasOptions
    \/ answer.options = <<>>
    \/ leg_options_with_price(answer.options) = <<>>

\* best_leg = min(options_with_price, key=lambda x: x['price']), as a position
BestLegOf(options) ==
    LET priced == leg_options_with_price(options)
    IN  priced[PyMin([k \in 1..Len(priced) |-> Val(options[priced[k]].price)])]

\* parse_iso_duration_to_minutes(best_leg.get('duration', 'PT0M'))
\* (Absent is the key missing here; the providers emit a string or no key)
LegDuration(opt) ==
    IF Has(opt.duration) THEN parse_iso_duration_to_minutes(Val(opt.duration)) ELSE 0

\* variant of LegRecord: the option copied without its payload
LegRecordWithoutPayload(origin, destination, date, options, at) ==
    [from |-> origin, to |-> destination, date |-> date,
     option |-> [options[at] EXCEPT !.details = [segments |-> <<>>]], at |-> at]

\* the leg appended to legs; `at` names the list element the option is
LegRecord(origin, destination, date, options, at) ==
    [from |-> origin, to |-> destination, date |-> date, option |-> options[at], at |-> at]

\* variant of RouteRecord: the price of the last leg in place of the total
RouteRecordOfLastLeg(route_cities, price, duration, route_legs) ==
    [route |-> route_cities,
     total_price |-> Val(route_legs[Len(route_legs)].option.price),
     total_duration_minutes |-> duration, legs |-> route_legs]

\* the dict appended to complete_routes (total_duration_hours is the rounded
\* total_duration_minutes / 60 and carries nothing else)
RouteRecord(route_cities, price, duration, route_legs) ==
    [route |-> route_cities, total_price |-> price,
     total_duration_minutes |-> duration, legs |-> route_legs]

\* a min() that keeps the last of the routes at the lowest price
CheapestRouteOfLast(routes) ==
    CHOOSE k \in 1..Len(routes) :
        /\ \A j \in 1..Len(routes) : routes[k].total_price <= routes[j].total_price
        /\ \A j \in (k + 1)..Len(routes) : routes[j].total_price > routes[k].total_price

\* cheapest_route = min(complete_routes, key=lambda x: x['total_price']), as a position
CheapestRouteOf(routes) == PyMin([k \in 1..Len(routes) |-> routes[k].total_price])

\* fastest_route = min(complete_routes, key=lambda x: x['total_duration_minutes'])
FastestRouteOf(routes) == PyMin([k \in 1..Len(routes) |-> routes[k].total_duration_minutes])

\* the routes the discard loop visits: id(route) not in recommended_ids, and
\* the ids of two live dicts differ
DiscardedRoutes(routes) ==
    SelectSeq(PositionsOf(routes),
              LAMBDA p : p \notin {CheapestRouteOf(routes), FastestRouteOf(routes)})

\* a price comparison that also counts a route at the price of the cheapest
RoutePriceReasonsOnTie(route, cheapest_route) ==
    LET price_diff == route.total_price - cheapest_route.total_price
    IN  IF price_diff >= 0
        THEN <<[kind |-> "price",
                text |-> FormatPrice(price_diff) \o " EUR more expensive than cheapest route"]>>
        ELSE <<>>

\* the price comparison of the route discard loop
RoutePriceReasons(route, cheapest_route) ==
    LET price_diff == route.total_price - cheapest_route.total_price
    IN  IF price_diff > 0
        THEN <<[kind |-> "price",
                text |-> FormatPrice(price_diff) \o " EUR more expensive than cheapest route"]>>
        ELSE <<>>

\* the duration comparison raises: time_diff is inf - finite = inf, inf > 0,
\* inf // 60 is nan and int(nan) raises ValueError
RouteDurationRaises(route, fastest_route) ==
    route.total_duration_minutes = Inf /\ fastest_route.total_duration_minutes # Inf

\* the duration comparison of the route discard loop; inf - inf is nan and
\* nan > 0 is false
RouteDurationReasons(route, fastest_route) ==
    IF route.total_duration_minutes = Inf \/ fastest_route.total_duration_minutes = Inf
    THEN <<>>
    ELSE LET time_diff == route.total_duration_minutes - fastest_route.total_duration_minutes
         IN  IF time_diff > 0
             THEN <<[kind |-> "duration",
                     text |-> FormatTime(time_diff) \o " slower than fastest route"]>>
             ELSE <<>>

\* reasons of one discarded route
RouteReasonsOf(route, cheapest_route, fastest_route) ==
    LET reasons == RoutePriceReasons(route, cheapest_route)
                   \o RouteDurationReasons(route, fastest_route)
    IN  IF reasons = <<>>
        THEN <<[kind |-> "fallback", text |-> "Not the cheapest or fastest route order"]>>
        ELSE reasons

\* an error payload of the optimizer
RouteError(msg) ==
    [keys |-> {"error"}, error |-> msg,
     cheapest |-> Absent, fastest |-> Absent, same_route |-> FALSE,
     discarded |-> <<>>, cheapest_at |-> 0, fastest_at |-> 0,
     total_routes_analyzed |-> 0]

NoRouteResult == RouteError("")

\* lines 776-835: the payload built from a non-empty complete_routes
RouteRecommendation(routes) ==
    LET cheapest == CheapestRouteOf(routes)
        fastest  == FastestRouteOf(routes)
        out == DiscardedRoutes(routes)
    IN  IF \E k \in 1..Len(out) : RouteDurationRaises(routes[out[k]], routes[fastest])
        THEN RouteError("Route optimization failed")
        ELSE [keys |-> {"analysis", "recommended", "discarded"}, error |-> "",
              cheapest |-> Some(routes[cheapest]),
              fastest |-> Some(routes[fastest]),
              same_route |-> (routes[cheapest].route = routes[fastest].route),
              discarded |-> [k \in 1..Len(out) |->
                  [route |-> routes[out[k]].route,
                   total_price |-> routes[out[k]].total_price,
                   at |-> out[k],
                   reasons |-> RouteReasonsOf(routes[out[k]], routes[cheapest],
                                              routes[fastest])]],
              cheapest_at |-> cheapest, fastest_at |-> fastest,
              total_routes_analyzed |-> Len(routes)]

\* lines 768-835: what the function returns after the loop over the permutations
RankRoutes(routes) ==
    IF routes = <<>>
    THEN RouteError("Could not find valid routes for any permutation")
    ELSE RouteRecommendation(routes)

(***************************************************************************)
(* A function that is not being called: its variables rest.               *)
(***************************************************************************)
\* search_all_transport is not running
SearchAllIdle ==
    /\ sw = [date |-> <<1, 1, 1>>]
    /\ spc = "idle"
    /\ all_options = <<>>
    /\ mode_calls = <<>>
    /\ sresult = [kind |-> "none"]

\* the itinerary store is not in use
StoreIdle ==
    /\ files = <<>>
    /\ files_before = <<>>
    /\ fs_op = [op |-> "none"]
    /\ ever_saved = {}

\* no AmadeusFlightAPI call is running
AmadeusIdle ==
    /\ now = 0
    /\ last_request_time = 0
    /\ iata_cache = <<>>
    /\ mpc = <<>>
    /\ mcall = <<>>
    /\ latest_request = <<>>
    /\ ret = <<>>

ServicesIdle == SearchAllIdle /\ StoreIdle /\ AmadeusIdle

AnalyzeIdle ==
    /\ data = [valid |-> FALSE, hasOptions |-> FALSE, options |-> <<>>]
    /\ pc = "idle"
    /\ result = NoResult
    /\ again = NoResult

ParseIdle ==
    /\ iso_duration = <<>>
    /\ ppc = "idle"
    /\ minutes = 0

OptimizeIdle ==
    /\ cities_json = [valid |-> FALSE, isList |-> FALSE, cities |-> <<>>]
    /\ departure_date = <<1, 1, 1>>
    /\ leg_search = [answers |-> "", o |-> 0, a |-> 0, b |-> 0, c |-> 0]
    /\ opc = "idle"
    /\ all_permutations = <<>>
    /\ perm = 0
    /\ leg = 0
    /\ legs = <<>>
    /\ total_price = 0
    /\ total_duration_minutes = 0
    /\ current_date = <<1, 1, 1>>
    /\ complete_routes = <<>>
    /\ searches = <<>>
    /\ in_flight = 0
    /\ leg_data = [hasOptions |-> FALSE, options |-> <<>>]
    /\ route_valid = TRUE
    /\ best_leg = 0
    /\ oresult = NoRouteResult

(***************************************************************************)
(* The analyzer as a state machine: a caller hands all_options_json to     *)
(* analyze_best_routes, and may hand the same argument to it once more.    *)
(***************************************************************************)
Init ==
    /\ \/ data \in NoOptionInputs
       \/ \E n \in 0..MaxOffers : \E l \in OfferLists(n) :
             data = [valid |-> TRUE, hasOptions |-> TRUE, options |-> l]
    /\ pc = "start"
    /\ result = NoResult
    /\ again = NoResult
    /\ ParseIdle
    /\ OptimizeIdle
    /\ ServicesIdle

Analyze ==
    /\ pc = "start"
    /\ \E ids \in IdMaps(Len(data.options)) : result' = analyze_best_routes(data, ids)
    /\ pc' = "done"
    /\ UNCHANGED <<data, again, pvars, ovars, xvars>>

AnalyzeAgain ==
    /\ pc = "done"
    /\ \E ids \in IdMaps(Len(data.options)) : again' = analyze_best_routes(data, ids)
    /\ pc' = "rerun"
    /\ UNCHANGED <<data, result, pvars, ovars, xvars>>

Next == Analyze \/ AnalyzeAgain

Spec == Init /\ [][Next]_vars

(***************************************************************************)
(* The duration parser as a state machine: one call on one string.         *)
(***************************************************************************)
InitParse ==
    /\ \/ iso_duration \in NamedDurations
       \/ \E n \in 0..MaxDurLen : iso_duration \in StringsOfLen(n)
    /\ ppc = "start"
    /\ minutes = 0
    /\ AnalyzeIdle
    /\ OptimizeIdle
    /\ ServicesIdle

ParseDuration ==
    /\ ppc = "start"
    /\ minutes' = parse_iso_duration_to_minutes(iso_duration)
    /\ ppc' = "done"
    /\ UNCHANGED <<avars, iso_duration, ovars, xvars>>

NextParse == ParseDuration

SpecParse == InitParse /\ [][NextParse]_vars

(***************************************************************************)
(* The optimizer as a state machine: one call of optimize_multi_city_route *)
(* with each search_all_transport.invoke as two steps, the call and the    *)
(* return.                                                                 *)
(***************************************************************************)
InitOptimize ==
    /\ cities_json \in CityInputs
    /\ departure_date \in StartDates
    /\ leg_search \in LegSearches
    /\ opc = "start"
    /\ all_permutations = <<>>
    /\ perm = 0
    /\ leg = 0
    /\ legs = <<>>
    /\ total_price = 0
    /\ total_duration_minutes = 0
    /\ current_date = <<1, 1, 1>>
    /\ complete_routes = <<>>
    /\ searches = <<>>
    /\ in_flight = 0
    /\ leg_data = [hasOptions |-> FALSE, options |-> <<>>]
    /\ route_valid = TRUE
    /\ best_leg = 0
    /\ oresult = NoRouteResult
    /\ AnalyzeIdle
    /\ ParseIdle
    /\ ServicesIdle

\* variant of TooFewCities: a list of one city is let through
TooFewCitiesOnlyEmpty(c) == ~c.isList \/ Len(c.cities) < 1

\* not isinstance(cities, list) or len(cities) < 2
TooFewCities(c) == ~c.isList \/ Len(c.cities) < 2

\* json.loads(cities_json) raises json.JSONDecodeError
RejectJson ==
    /\ opc = "start"
    /\ ~cities_json.valid
    /\ oresult' = RouteError("Invalid JSON input for cities")
    /\ opc' = "done"
    /\ UNCHANGED <<cities_json, departure_date, leg_search, all_permutations, perm, leg,
                   legs, total_price, total_duration_minutes, current_date,
                   complete_routes, searches, in_flight, leg_data, route_valid,
                   best_leg, avars, pvars, xvars>>

\* lines 688-695
RejectCities ==
    /\ opc = "start"
    /\ cities_json.valid
    /\ TooFewCities(cities_json)
    /\ oresult' = RouteError("Need at least 2 cities to optimize route")
    /\ opc' = "done"
    /\ UNCHANGED <<cities_json, departure_date, leg_search, all_permutations, perm, leg,
                   legs, total_price, total_duration_minutes, current_date,
                   complete_routes, searches, in_flight, leg_data, route_valid,
                   best_leg, avars, pvars, xvars>>

\* lines 706-713: the locals of permutation number p; the loop over the legs
\* of a permutation of fewer than two cities has no pass
StartPermutation(perms, p) ==
    /\ perm' = p
    /\ leg' = 1
    /\ legs' = <<>>
    /\ total_price' = 0
    /\ total_duration_minutes' = 0
    /\ current_date' = departure_date
    /\ route_valid' = TRUE
    /\ opc' = IF Len(perms[p]) >= 2 THEN "search" ELSE "end"

\* lines 697-704: the permutations, and the first pass of the loop over them
BeginRoutes ==
    /\ opc = "start"
    /\ cities_json.valid
    /\ ~TooFewCities(cities_json)
    /\ all_permutations' = permutations(cities_json.cities)
    /\ complete_routes' = <<>>
    /\ StartPermutation(permutations(cities_json.cities), 1)
    /\ UNCHANGED <<cities_json, departure_date, leg_search, searches, in_flight,
                   leg_data, best_leg, oresult, avars, pvars, xvars>>

route_cities == all_permutations[perm]
origin == route_cities[leg]
destination == route_cities[leg + 1]

\* variant of CanIssueSearch: a search is issued while another is in flight
CanIssueSearchInParallel == opc \in {"search", "waiting"}

\* the loop reaches search_all_transport.invoke only after the previous call returned
CanIssueSearch == opc = "search"

\* search_all_transport.invoke is called
IssueSearch ==
    /\ CanIssueSearch
    /\ searches' = Append(searches, [origin |-> origin, destination |-> destination,
                                     departure_date |-> current_date,
                                     perm |-> perm, leg |-> leg])
    /\ in_flight' = in_flight + 1
    /\ opc' = "waiting"
    /\ UNCHANGED <<cities_json, departure_date, leg_search, all_permutations, perm, leg,
                   legs, total_price, total_duration_minutes, current_date,
                   complete_routes, leg_data, route_valid, best_leg, oresult,
                   avars, pvars, xvars>>

\* the call returns an answer without a priced option: route_valid = False; break
RejectLeg ==
    /\ opc = "waiting"
    /\ in_flight' = in_flight - 1
    /\ leg_data' = search_all_transport_invoke(leg_search, origin, destination, current_date)
    /\ LegRejected(leg_data')
    /\ route_valid' = FALSE
    /\ opc' = "end"
    /\ UNCHANGED <<cities_json, departure_date, leg_search, all_permutations, perm, leg,
                   legs, total_price, total_duration_minutes, current_date,
                   complete_routes, searches, best_leg, oresult, avars, pvars, xvars>>

\* the call returns an answer with a priced option: lines 741-757
AcceptLeg ==
    /\ opc = "waiting"
    /\ in_flight' = in_flight - 1
    /\ leg_data' = search_all_transport_invoke(leg_search, origin, destination, current_date)
    /\ ~LegRejected(leg_data')
    /\ best_leg' = BestLegOf(leg_data'.options)
    /\ legs' = Append(legs, LegRecord(origin, destination, current_date,
                                      leg_data'.options, best_leg'))
    /\ total_price' = total_price + Val(leg_data'.options[best_leg'].price)
    /\ total_duration_minutes' =
           FloatAdd(total_duration_minutes, LegDuration(leg_data'.options[best_leg']))
    /\ current_date' = NextDay(current_date)
    /\ IF leg < Len(route_cities) - 1
       THEN leg' = leg + 1 /\ opc' = "search"
       ELSE leg' = leg /\ opc' = "end"
    /\ UNCHANGED <<cities_json, departure_date, leg_search, all_permutations, perm,
                   complete_routes, searches, route_valid, oresult, avars, pvars, xvars>>

\* lines 759-766, and the next pass of "for perm in all_permutations" or its end
EndPermutation ==
    /\ opc = "end"
    /\ complete_routes' =
           IF route_valid
           THEN Append(complete_routes,
                       RouteRecord(route_cities, total_price, total_duration_minutes, legs))
           ELSE complete_routes
    /\ IF perm < Len(all_permutations)
       THEN StartPermutation(all_permutations, perm + 1)
       ELSE /\ opc' = "rank"
            /\ UNCHANGED <<perm, leg, legs, total_price, total_duration_minutes,
                           current_date, route_valid>>
    /\ UNCHANGED <<cities_json, departure_date, leg_search, all_permutations,
                   searches, in_flight, leg_data, best_leg, oresult, avars, pvars, xvars>>

\* lines 768-835: after the loop
RankAndReturn ==
    /\ opc = "rank"
    /\ oresult' = RankRoutes(complete_routes)
    /\ opc' = "done"
    /\ UNCHANGED <<cities_json, departure_date, leg_search, all_permutations, perm, leg,
                   legs, total_price, total_duration_minutes, current_date,
                   complete_routes, searches, in_flight, leg_data, route_valid,
                   best_leg, avars, pvars, xvars>>

NextOptimize ==
    \/ RejectJson
    \/ RejectCities
    \/ BeginRoutes
    \/ IssueSearch
    \/ RejectLeg
    \/ AcceptLeg
    \/ EndPermutation
    \/ RankAndReturn

SpecOptimize == InitOptimize /\ [][NextOptimize]_vars

(***************************************************************************)
(* Both functions on the offers of a search: a caller hands the answer of  *)
(* search_all_transport to analyze_best_routes, or calls the optimizer.    *)
(***************************************************************************)
InitAnalyzeLeg ==
    /\ \E k \in 1..Len(AllAnswers) :
          data = [valid |-> TRUE, hasOptions |-> AllAnswers[k].hasOptions,
                  options |-> AllAnswers[k].options]
    /\ pc = "start"
    /\ result = NoResult
    /\ again = NoResult
    /\ ParseIdle
    /\ OptimizeIdle
    /\ ServicesIdle

InitFrame == InitAnalyzeLeg \/ InitOptimize

NextFrame ==
    \/ Analyze
    \/ AnalyzeAgain
    \/ RejectJson
    \/ RejectCities
    \/ BeginRoutes
    \/ IssueSearch
    \/ RejectLeg
    \/ AcceptLeg
    \/ EndPermutation
    \/ RankAndReturn

SpecFrame == InitFrame /\ [][NextFrame]_vars

(***************************************************************************)
(* Vocabulary of the properties.                                           *)
(***************************************************************************)
Returned == pc \in {"done", "rerun"}
IsRecommendation(r) == r.keys = {"analysis", "recommended", "discarded"}
Opts == data.options
Positions == 1..Len(Opts)
Priced == {p \in Positions : Has(Opts[p].price)}
PriceAt(p) == Val(Opts[p].price)
Timed ==
    {p \in Positions : Has(Opts[p].duration)
                       /\ parse_iso_duration_to_minutes(Val(Opts[p].duration)) # Inf}
MinutesAt(p) == parse_iso_duration_to_minutes(Val(Opts[p].duration))
Selected(r) == {r.cheapest_at, r.fastest_at} \ {0}
EntriesAt(r, p) == {k \in 1..Len(r.discarded) : r.discarded[k].at = p}
Kinds(entry) == {entry.reasons[j].kind : j \in 1..Len(entry.reasons)}

\* the duration grammar PT[<h>H][<m>M]: the whole string is "PT", then an
\* optional hours component, then an optional minutes component
AllDigits(s) == \A k \in 1..Len(s) : s[k] \in Digits
IsComponent(part, unit) ==
    \/ part = <<>>
    \/ Len(part) >= 2 /\ part[Len(part)] = unit /\ AllDigits(SubSeq(part, 1, Len(part) - 1))
ComponentValue(part) == IF part = <<>> THEN 0 ELSE IntOf(part, 1, Len(part) - 1)
GrammarSplits(s) ==
    {i \in 3..(Len(s) + 1) : IsComponent(SubSeq(s, 3, i - 1), "H")
                             /\ IsComponent(SubSeq(s, i, Len(s)), "M")}
InGrammar(s) == Len(s) >= 2 /\ s[1] = "P" /\ s[2] = "T" /\ GrammarSplits(s) # {}
GrammarMinutes(s) ==
    LET i == CHOOSE j \in GrammarSplits(s) : TRUE
    IN  60 * ComponentValue(SubSeq(s, 3, i - 1)) + ComponentValue(SubSeq(s, i, Len(s)))
Malformed(opt) == Has(opt.duration) /\ ~InGrammar(Val(opt.duration))

ScenarioBus == Offer("bus", Some(4500), Absent, Some(PT12H0M))
ScenarioFlight == Offer("flight", Some(12000), Absent, Some(PT2H30M))
ScenarioTrain == Offer("train", Some(9500), Absent, Some(PT8H0M))

(***************************************************************************)
(* Properties.                                                             *)
(***************************************************************************)

\* C1: for every non-empty offer list with at least one priced offer the call
\* returns a recommendation in which every list position is classified
\* exactly once: it is the cheapest or the fastest position, or it has exactly
\* one entry in `discarded`; |discarded| = |offers| - |{cheapest, fastest}|;
\* every entry carries the offer at its position; entries keep list order.
C1_EveryOfferClassifiedOnce ==
    (Returned /\ data.valid /\ data.hasOptions /\ Priced # {}) =>
        /\ IsRecommendation(result)
        /\ \A p \in Positions :
              IF p \in Selected(result)
              THEN EntriesAt(result, p) = {}
              ELSE Cardinality(EntriesAt(result, p)) = 1
        /\ Len(result.discarded) = Len(Opts) - Cardinality(Selected(result))
        /\ \A k \in 1..Len(result.discarded) :
              /\ result.discarded[k].at \in Positions
              /\ result.discarded[k].option = Opts[result.discarded[k].at]
              /\ k > 1 => result.discarded[k - 1].at < result.discarded[k].at

\* C2: in every recommendation `cheapest` is a priced input offer (a price
\* of 0 is a price), no priced input offer is cheaper, and no earlier offer
\* has the same price.
C2_CheapestIsFirstMinimum ==
    (Returned /\ IsRecommendation(result)) =>
        LET c == result.cheapest_at
        IN  /\ c \in Priced
            /\ result.cheapest = Some(Opts[c])
            /\ \A p \in Priced : PriceAt(c) <= PriceAt(p)
            /\ \A p \in Priced : p < c => PriceAt(c) < PriceAt(p)

\* C2 witness: a recommendation whose cheapest offer costs 0, is tied with a
\* later offer, and shares the list with an offer that has no price.
C2_Witness ==
    /\ Returned /\ IsRecommendation(result)
    /\ PriceAt(result.cheapest_at) = 0
    /\ \E p \in Priced : p > result.cheapest_at /\ PriceAt(p) = 0
    /\ Priced # Positions

\* C3: in every recommendation `fastest` is the first offer of minimum parsed
\* duration among all offers whose duration parses, priced or not, and it is
\* absent exactly when no offer has a duration that parses.
C3_FastestIsFirstMinimum ==
    (Returned /\ IsRecommendation(result)) =>
        LET f == result.fastest_at
        IN  /\ (Timed = {}) <=> (result.fastest = Absent)
            /\ (Timed = {}) <=> (f = 0)
            /\ Timed # {} =>
                  /\ f \in Timed
                  /\ result.fastest = Some(Opts[f])
                  /\ \A p \in Timed : MinutesAt(f) <= MinutesAt(p)
                  /\ \A p \in Timed : p < f => MinutesAt(f) < MinutesAt(p)

\* C3 witness: a recommendation whose fastest offer has no price and is tied
\* with a later offer.
C3_Witness ==
    /\ Returned /\ IsRecommendation(result)
    /\ result.fastest_at # 0
    /\ ~Has(Opts[result.fastest_at].price)
    /\ \E p \in Timed : p > result.fastest_at /\ MinutesAt(p) = MinutesAt(result.fastest_at)

\* C4: an offer whose duration string is not in the duration grammar never
\* turns the analysis of a list with a priced offer into an error result, is
\* never the fastest, and when it is not the cheapest it is in `discarded`
\* with a non-empty reasons list.
C4_MalformedDurationAbsorbed ==
    (Returned /\ data.valid /\ data.hasOptions /\ Priced # {}) =>
        \A p \in Positions : Malformed(Opts[p]) =>
            /\ IsRecommendation(result)
            /\ result.fastest_at # p
            /\ p # result.cheapest_at =>
                  \E k \in EntriesAt(result, p) : result.discarded[k].reasons # <<>>

\* C5: parse_iso_duration_to_minutes returns 60*h + m for a string of the
\* form PT[<h>H][<m>M] and float('inf') for every other string.
C5_ParserFollowsGrammar ==
    ppc = "done" =>
        minutes = (IF InGrammar(iso_duration) THEN GrammarMinutes(iso_duration) ELSE Inf)

\* C6: a missing or empty option list gives the error payload "No options
\* provided to analyze"; a non-empty list without any price gives the
\* different error payload "No options with valid prices"; either payload
\* has the keys error and message only: no cheapest, fastest or discarded.
C6_StructuredErrors ==
    Returned /\ data.valid =>
        /\ (~data.hasOptions \/ Opts = <<>>) =>
              result.error = "No options provided to analyze"
        /\ (data.hasOptions /\ Opts # <<>> /\ Priced = {}) =>
              result.error = "No options with valid prices"
        /\ (~data.hasOptions \/ Opts = <<>> \/ Priced = {}) =>
              /\ result.keys = {"error", "message"}
              /\ result.cheapest = Absent /\ result.fastest = Absent
              /\ result.discarded = <<>>

\* C6 witness: the call returned for a non-empty list in which no offer has
\* a price although one has a duration that parses.
C6_Witness ==
    /\ Returned /\ data.hasOptions /\ Opts # <<>>
    /\ Priced = {} /\ Timed # {}
    /\ result.error = "No options with valid prices"

\* C7: every discarded entry has a non-empty reasons list, with a price
\* reason iff the offer has a price above the cheapest price, a duration
\* reason iff a fastest offer exists and the offer has a parsed duration
\* above the fastest duration, and the fallback reason iff neither.
C7_ReasonsPerAxis ==
    (Returned /\ IsRecommendation(result)) =>
        \A k \in 1..Len(result.discarded) :
            LET e == result.discarded[k]
                dearer == e.at \in Priced /\ PriceAt(e.at) > PriceAt(result.cheapest_at)
                slower == /\ result.fastest_at # 0
                          /\ e.at \in Timed
                          /\ MinutesAt(e.at) > MinutesAt(result.fastest_at)
            IN  /\ e.reasons # <<>>
                /\ ("price" \in Kinds(e)) <=> dearer
                /\ ("duration" \in Kinds(e)) <=> slower
                /\ ("fallback" \in Kinds(e)) <=> (~dearer /\ ~slower)
                /\ Len(e.reasons) = Cardinality(Kinds(e))

\* C7 witness: a recommendation that discards one offer for both price and
\* duration and another with the fallback reason alone.
C7_Witness ==
    /\ Returned /\ IsRecommendation(result)
    /\ \E k \in 1..Len(result.discarded) : Kinds(result.discarded[k]) = {"price", "duration"}
    /\ \E k \in 1..Len(result.discarded) : Kinds(result.discarded[k]) = {"fallback"}

C9_SameOptionIffSamePosition ==
    (Returned /\ IsRecommendation(result)) =>
        result.same_option = (result.fastest_at # 0 /\ result.fastest_at = result.cheapest_at)

\* C9 witness: a recommendation whose cheapest and fastest are two different
\* positions, returned for a list that also holds a copy of the cheapest offer.
C9_Witness ==
    /\ Returned /\ IsRecommendation(result)
    /\ result.fastest_at # 0 /\ result.fastest_at # result.cheapest_at
    /\ ~result.same_option
    /\ \E p \in Positions : p # result.cheapest_at /\ Opts[p] = Opts[result.cheapest_at]

\* C10: a second call on the same argument returns what the first call
\* returned (same cheapest, fastest, discarded entries, order and reasons),
\* whatever addresses the two calls gave the list elements.
C10_SameInputSameResult ==
    pc = "rerun" => again = result

\* C10 witness: two calls returned a recommendation that discards two offers.
C10_Witness ==
    /\ pc = "rerun" /\ IsRecommendation(again)
    /\ Len(again.discarded) >= 2

(***************************************************************************)
(* Vocabulary of the properties of the optimizer.                          *)
(***************************************************************************)
OptimizeReturned == opc = "done"
IsRouteRecommendation(r) == r.keys = {"analysis", "recommended", "discarded"}
Cities == cities_json.cities
NumCities == Len(Cities)
EnoughCities == cities_json.valid /\ cities_json.isList /\ NumCities >= 2
LoopEnded == opc \in {"rank", "done"}
OffersOf(options) == {options[k] : k \in 1..Len(options)}
\* what search_all_transport answers to a search for origin o, destination d, date t
AnswerFor(o, d, t) == search_all_transport_invoke(leg_search, o, d, t)
RecommendedRoutes(r) == {Val(r.cheapest), Val(r.fastest)}
AllLegs(route_legs) == {route_legs[k] : k \in 1..Len(route_legs)}
\* every leg recorded: of the permutation in hand and, once the function has
\* returned, of every complete route and of the routes returned (a complete
\* route stays in complete_routes to the end)
LegsHeld ==
    AllLegs(legs)
    \cup (IF OptimizeReturned
          THEN UNION {AllLegs(complete_routes[j].legs) : j \in 1..Len(complete_routes)}
          ELSE {})
    \cup (IF IsRouteRecommendation(oresult)
          THEN UNION {AllLegs(r.legs) : r \in RecommendedRoutes(oresult)}
          ELSE {})
AnalyzerOffers(r) ==
    (IF Has(r.cheapest) THEN {Val(r.cheapest)} ELSE {})
    \cup (IF Has(r.fastest) THEN {Val(r.fastest)} ELSE {})
    \cup {r.discarded[k].option : k \in 1..Len(r.discarded)}

\* C11: analyze_best_routes and optimize_multi_city_route never modify an
\* offer: every offer in a result of the analyzer (cheapest, fastest, the
\* option of a discarded entry) is equal, field for field and payload
\* included, to an offer of the list supplied, and the option of every leg of
\* the optimizer is equal to an offer of the answer to the search of that leg;
\* the list supplied is left as it was.
C11_OffersPassThrough ==
    /\ AnalyzerOffers(result) \cup AnalyzerOffers(again) \subseteq OffersOf(data.options)
    /\ \A l \in LegsHeld : l.option \in OffersOf(AnswerFor(l.from, l.to, l.date).options)

\* C11 witness: the optimizer returned a recommendation whose cheapest route
\* has legs with different offers, payloads included, and discarded a route
C11_Witness ==
    /\ OptimizeReturned
    /\ IsRouteRecommendation(oresult)
    /\ oresult.discarded # <<>>
    /\ \E l, m \in AllLegs(Val(oresult.cheapest).legs) :
          /\ l.option.details # m.option.details
          /\ l.option.details.segments # <<>>

RECURSIVE Factorial(_)
Factorial(n) == IF n <= 1 THEN 1 ELSE n * Factorial(n - 1)

CitySet == {Cities[k] : k \in 1..NumCities}
\* the answer to a search holds an offer whose price is present
HasPricedOffer(answer) == \E o \in OffersOf(answer.options) : Has(o.price)
EverySearchFoundPrice ==
    \A k \in 1..Len(searches) :
        HasPricedOffer(AnswerFor(searches[k].origin, searches[k].destination,
                                 searches[k].departure_date))
\* the routes a result accounts for, as positions in the order of evaluation
RoutesAccounted(r) ==
    {r.cheapest_at, r.fastest_at} \cup {r.discarded[k].at : k \in 1..Len(r.discarded)}

\* C12: for n >= 2 distinct cities the optimizer considers exactly the n!
\* orderings of the cities, each exactly once and with every city as a start,
\* and when every leg search yields an offer with a price the result accounts
\* for exactly n! routes: total_routes_analyzed is n! and the recommended and
\* the discarded routes cover all of them.
C12_AllOrderingsAccounted ==
    (EnoughCities /\ opc # "start") =>
        /\ Len(all_permutations) = Factorial(NumCities)
        /\ \A j, k \in 1..Len(all_permutations) :
              j # k => all_permutations[j] # all_permutations[k]
        /\ \A j \in 1..Len(all_permutations) :
              /\ Len(all_permutations[j]) = NumCities
              /\ {all_permutations[j][k] : k \in 1..NumCities} = CitySet
        /\ {all_permutations[j][1] : j \in 1..Len(all_permutations)} = CitySet
        /\ LoopEnded =>
              \A j \in 1..Len(all_permutations) :
                  Cardinality({k \in 1..Len(searches) :
                                  searches[k].perm = j /\ searches[k].leg = 1}) = 1
        /\ (OptimizeReturned /\ EverySearchFoundPrice) =>
              /\ IsRouteRecommendation(oresult)
              /\ oresult.total_routes_analyzed = Factorial(NumCities)
              /\ RoutesAccounted(oresult) = 1..Factorial(NumCities)

\* the calendar: a date of the Gregorian calendar, and its number counted in
\* days from 0001-01-01
LeapYear(y) == IF y % 100 = 0 THEN y % 400 = 0 ELSE y % 4 = 0
MonthLengths(y) ==
    <<31, IF LeapYear(y) THEN 29 ELSE 28, 31, 30, 31, 30, 31, 31, 30, 31, 30, 31>>
IsDate(date) ==
    /\ date[2] \in 1..12
    /\ date[3] \in 1..MonthLengths(date[1])[date[2]]
RECURSIVE DaysBefore(_, _)
DaysBefore(y, m) == IF m = 1 THEN 0 ELSE DaysBefore(y, m - 1) + MonthLengths(y)[m - 1]
DayNumber(date) ==
    LET y == date[1] - 1
    IN  365 * y + (y \div 4) - (y \div 100) + (y \div 400)
        + DaysBefore(date[1], date[2]) + date[3]
\* the date that is n days after the start date
IsDayAfterStart(date, n) ==
    IsDate(date) /\ DayNumber(date) = DayNumber(departure_date) + n
\* the legs recorded: of the permutation in hand and, once the function has
\* returned, of every complete route and of the routes returned
LegLists ==
    {legs}
    \cup (IF OptimizeReturned
          THEN {complete_routes[j].legs : j \in 1..Len(complete_routes)}
               \cup (IF IsRouteRecommendation(oresult)
                     THEN {r.legs : r \in RecommendedRoutes(oresult)} ELSE {})
          ELSE {})
\* the searches issued: the last one and, once the function has returned, all
SearchesMade ==
    IF OptimizeReturned THEN 1..Len(searches)
    ELSE IF searches = <<>> THEN {} ELSE {Len(searches)}

LegsSearched(p) == {searches[k].leg : k \in {j \in 1..Len(searches) : searches[j].perm = p}}
\* the permutations whose pass of the loop has issued all its searches
PermutationsSearched ==
    {p \in 1..Len(all_permutations) :
        p < perm \/ (p = perm /\ opc \in {"end", "rank", "done"})}
\* the answer to search number n has no offer with a price other than 0
NothingToPick(n) ==
    \A o \in OffersOf(AnswerFor(searches[n].origin, searches[n].destination,
                                searches[n].departure_date).options) :
        ~Has(o.price) \/ Val(o.price) = 0
\* search number n is for the pair of cities of its permutation and leg
ForItsCityPair(n) ==
    /\ searches[n].origin = all_permutations[searches[n].perm][searches[n].leg]
    /\ searches[n].destination = all_permutations[searches[n].perm][searches[n].leg + 1]
\* search number n is the last of its permutation when every pair is searched
LastOfAllPairs(n) == searches[n].leg = NumCities - 1
\* search number n is the last of its permutation when the pairs after a
\* rejected one are not searched
LastUntilRejected(n) == searches[n].leg = NumCities - 1 \/ NothingToPick(n)

\* C14 as stated: the leg searches are issued strictly one after another, at
\* most one in flight, in permutation order and within a permutation in leg
\* order, exactly once for each consecutive pair of cities of each
\* permutation, n-1 searches per permutation.  (The log of a call that has
\* left the loop holds every search it issued, in order.)
C14_OneSearchPerCityPair ==
    /\ in_flight \in {0, 1}
    /\ (LoopEnded /\ EnoughCities) =>
          /\ searches # <<>>
          /\ searches[1].perm = 1 /\ searches[1].leg = 1
          /\ \A n \in 1..Len(searches) : ForItsCityPair(n)
          /\ \A n \in 1..(Len(searches) - 1) :
                IF LastOfAllPairs(n)
                THEN /\ searches[n + 1].perm = searches[n].perm + 1
                     /\ searches[n + 1].leg = 1
                ELSE /\ searches[n + 1].perm = searches[n].perm
                     /\ searches[n + 1].leg = searches[n].leg + 1
          /\ searches[Len(searches)].perm = Len(all_permutations)
          /\ LastOfAllPairs(Len(searches))

\* C14 amended: the leg searches are issued strictly one after another, at
\* most one in flight, in permutation order and within a permutation in leg
\* order, exactly once for each consecutive pair of cities of a permutation
\* up to and including the first pair whose search returns no offer with a
\* price other than 0; the pairs after that one are not searched, and a
\* permutation without such a pair gets n-1 searches.
C14_OneSearchPerCityPairUntilRejected ==
    /\ in_flight \in {0, 1}
    /\ (LoopEnded /\ EnoughCities) =>
          /\ searches # <<>>
          /\ searches[1].perm = 1 /\ searches[1].leg = 1
          /\ \A n \in 1..Len(searches) : ForItsCityPair(n)
          /\ \A n \in 1..(Len(searches) - 1) :
                IF LastUntilRejected(n)
                THEN /\ searches[n + 1].perm = searches[n].perm + 1
                     /\ searches[n + 1].leg = 1
                ELSE /\ searches[n + 1].perm = searches[n].perm
                     /\ searches[n + 1].leg = searches[n].leg + 1
          /\ searches[Len(searches)].perm = Len(all_permutations)
          /\ LastUntilRejected(Len(searches))

\* C14 witness: of four cities, one permutation was searched for its first
\* leg only, another for its first two legs and another for all three
C14_Witness ==
    /\ OptimizeReturned
    /\ NumCities = 4
    /\ \E p, q, r \in PermutationsSearched :
          /\ LegsSearched(p) = {1}
          /\ LegsSearched(q) = {1, 2}
          /\ LegsSearched(r) = {1, 2, 3}

\* the offers of the answer to the search of a leg
OptionsOfLeg(l) == AnswerFor(l.from, l.to, l.date).options
PricedIn(options) == {p \in 1..Len(options) : Has(options[p].price)}

\* C15: the offer that represents a leg is the offer of minimal price among
\* the offers of that leg that have a price, the first of them on a tie and
\* whatever its duration; an offer without a price is never chosen.
C15_LegOfferIsFirstMinimumPrice ==
    \A l \in LegsHeld :
        /\ l.at \in PricedIn(OptionsOfLeg(l))
        /\ l.option = OptionsOfLeg(l)[l.at]
        /\ \A q \in PricedIn(OptionsOfLeg(l)) :
              /\ Val(OptionsOfLeg(l)[l.at].price) <= Val(OptionsOfLeg(l)[q].price)
              /\ q < l.at => Val(OptionsOfLeg(l)[l.at].price) < Val(OptionsOfLeg(l)[q].price)

\* the permutations whose pass of the loop has ended
PermutationsEvaluated ==
    {p \in 1..Len(all_permutations) : p < perm \/ (p = perm /\ LoopEnded)}
\* every search issued for permutation number p returned an offer with a price
EveryLegFoundPrice(p) ==
    \A k \in 1..Len(searches) :
        searches[k].perm = p =>
            HasPricedOffer(AnswerFor(searches[k].origin, searches[k].destination,
                                     searches[k].departure_date))
IsCandidate(p) ==
    \E j \in 1..Len(complete_routes) : complete_routes[j].route = all_permutations[p]

\* C16: a permutation is a candidate route exactly when every one of its leg
\* searches returned at least one offer whose price is present, 0 included;
\* a permutation with a leg without such an offer is left out, and the
\* permutations after it are still evaluated.
C16_CandidateIffEveryLegPriced ==
    /\ \A p \in PermutationsEvaluated : IsCandidate(p) <=> EveryLegFoundPrice(p)
    /\ LoopEnded => PermutationsEvaluated = 1..Len(all_permutations)

\* the answer to a leg search has just been handled: leg_data is that answer,
\* route_valid says whether it was accepted and the last of legs is the pick
LegAnswered == opc = "end" \/ (opc = "search" /\ leg > 1)
AnalyzerVerdicts ==
    {analyze_best_routes([valid |-> TRUE, hasOptions |-> leg_data.hasOptions,
                          options |-> leg_data.options], ids) :
        ids \in IdMaps(Len(leg_data.options))}

\* C17: for every list of offers of a leg, the offer the optimizer picks is
\* the `cheapest` analyze_best_routes returns for that list, and the optimizer
\* rejects the leg exactly when analyze_best_routes reports that there are no
\* options or no option with a price.
C17_LegPickIsAnalyzerCheapest ==
    LegAnswered =>
        \A a \in AnalyzerVerdicts :
            /\ ~route_valid <=> a.error \in {"No options provided to analyze",
                                             "No options with valid prices"}
            /\ route_valid =>
                  /\ a.cheapest = Some(legs[Len(legs)].option)
                  /\ a.cheapest_at = legs[Len(legs)].at

NoValidRoutesError(r) ==
    r.keys = {"error"} /\ r.error = "Could not find valid routes for any permutation"

\* C18: the optimizer returns the "no valid routes" error, and no
\* recommendation, exactly when every permutation was invalidated by a leg
\* without a priced offer; when at least one permutation is valid it returns a
\* recommendation that has both a cheapest and a fastest route.
C18_ErrorIffNoValidPermutation ==
    (OptimizeReturned /\ EnoughCities) =>
        /\ NoValidRoutesError(oresult) <=>
              \A p \in 1..Len(all_permutations) : ~IsCandidate(p)
        /\ (\E p \in 1..Len(all_permutations) : IsCandidate(p)) =>
              /\ IsRouteRecommendation(oresult)
              /\ Has(oresult.cheapest)
              /\ Has(oresult.fastest)

InsufficientCitiesError(r) ==
    r.keys = {"error"} /\ r.error = "Need at least 2 cities to optimize route"

\* C19: when the decoded cities value is not a list, or is a list of fewer
\* than 2 elements, the optimizer returns the structured "insufficient cities"
\* error and issues no leg search.
C19_TooFewCitiesNoSearch ==
    (cities_json.valid /\ (~cities_json.isList \/ NumCities < 2)) =>
        /\ searches = <<>>
        /\ in_flight = 0
        /\ opc \in {"start", "done"}
        /\ OptimizeReturned => InsufficientCitiesError(oresult)

\* C19 witness: the optimizer returned the error for a list of one city
C19_Witness ==
    /\ OptimizeReturned
    /\ cities_json.isList
    /\ NumCities = 1
    /\ InsufficientCitiesError(oresult)
    /\ searches = <<>>

\* the routes of a result: the routes returned, and the complete routes the
\* discarded entries stand for
RoutesHeld ==
    IF OptimizeReturned /\ IsRouteRecommendation(oresult)
    THEN RecommendedRoutes(oresult) \cup {complete_routes[j] : j \in 1..Len(complete_routes)}
    ELSE {}
\* the parsed duration of the offer of a leg; an offer without the key
\* "duration" counts as "PT0M"
ParsedMinutes(opt) ==
    parse_iso_duration_to_minutes(IF Has(opt.duration) THEN Val(opt.duration)
                                  ELSE <<"P", "T", "0", "M">>)
RECURSIVE SumOfPrices(_, _)
SumOfPrices(route_legs, k) ==
    IF k = 0 THEN 0 ELSE SumOfPrices(route_legs, k - 1) + Val(route_legs[k].option.price)
RECURSIVE SumOfMinutes(_, _)
SumOfMinutes(route_legs, k) ==
    IF k = 0 THEN 0
    ELSE IF \E j \in 1..k : ParsedMinutes(route_legs[j].option) = Inf THEN Inf
    ELSE SumOfMinutes(route_legs, k - 1) + ParsedMinutes(route_legs[k].option)

\* C20: every route of a result has exactly (number of cities - 1) legs, leg
\* k goes from the k-th to the (k+1)-th city of the route, total_price is the
\* sum of the prices of the offers chosen for the legs and
\* total_duration_minutes is the sum of their parsed durations (infinite as
\* soon as one of them is).
C20_RouteTotalsAreLegSums ==
    \A r \in RoutesHeld :
        /\ Len(r.route) = NumCities
        /\ Len(r.legs) = NumCities - 1
        /\ \A k \in 1..Len(r.legs) :
              /\ r.legs[k].from = r.route[k]
              /\ r.legs[k].to = r.route[k + 1]
        /\ r.total_price = SumOfPrices(r.legs, Len(r.legs))
        /\ r.total_duration_minutes = SumOfMinutes(r.legs, Len(r.legs))

\* C20 witness: a returned cheapest route of three legs at different prices,
\* one of them without a duration and another with one, whose totals are
\* more than any single leg's
C20_Witness ==
    /\ OptimizeReturned
    /\ IsRouteRecommendation(oresult)
    /\ LET r == Val(oresult.cheapest)
       IN  /\ Len(r.legs) = 3
           /\ Cardinality({Val(r.legs[k].option.price) : k \in 1..3}) >= 2
           /\ \E k \in 1..3 : ~Has(r.legs[k].option.duration)
           /\ \A k \in 1..3 : r.total_price > Val(r.legs[k].option.price)
           /\ \A k \in 1..3 : r.total_duration_minutes > ParsedMinutes(r.legs[k].option)

(***************************************************************************)
(* Properties of the ranking of the complete routes.                       *)
(***************************************************************************)
\* a total duration is at most another: inf is the largest
DurationLeq(a, b) == b = Inf \/ (a # Inf /\ a <= b)
\* the position of a route order in the enumeration of the permutations
PermutationIndex(route) ==
    CHOOSE k \in 1..Len(all_permutations) : all_permutations[k] = route
SuccessfulResult == OptimizeReturned /\ IsRouteRecommendation(oresult)
ValidRoutes == {complete_routes[j] : j \in 1..Len(complete_routes)}

\* C21: in every successful result the cheapest route costs no more than any
\* valid route and the fastest route lasts no longer than any valid route, and
\* among the valid routes that tie with it on that axis each is the route
\* whose permutation was enumerated first.
C21_CheapestAndFastestAreFirstMinima ==
    SuccessfulResult =>
        LET c == Val(oresult.cheapest)
            f == Val(oresult.fastest)
        IN  /\ c \in ValidRoutes
            /\ f \in ValidRoutes
            /\ \A r \in ValidRoutes :
                  /\ c.total_price <= r.total_price
                  /\ r.total_price = c.total_price
                        => PermutationIndex(c.route) <= PermutationIndex(r.route)
                  /\ DurationLeq(f.total_duration_minutes, r.total_duration_minutes)
                  /\ r.total_duration_minutes = f.total_duration_minutes
                        => PermutationIndex(f.route) <= PermutationIndex(r.route)

\* C21 witness: a successful result over at least three valid routes, where
\* a later route ties with the cheapest on price, a later route ties with
\* the fastest on duration, and some route is dearer and some is slower
C21_Witness ==
    /\ SuccessfulResult
    /\ Len(complete_routes) >= 3
    /\ LET c == Val(oresult.cheapest)
           f == Val(oresult.fastest)
       IN  /\ \E r \in ValidRoutes : r # c /\ r.total_price = c.total_price
           /\ \E r \in ValidRoutes : r.total_price > c.total_price
           /\ \E r \in ValidRoutes :
                 r # f /\ r.total_duration_minutes = f.total_duration_minutes
           /\ \E r \in ValidRoutes :
                 ~DurationLeq(r.total_duration_minutes, f.total_duration_minutes)

\* the kinds of the reasons of a discarded entry
ReasonKinds(entry) == {entry.reasons[k].kind : k \in 1..Len(entry.reasons)}
\* the discarded entries of a result that stand for a route order
DiscardedEntriesOf(r, route) ==
    {k \in 1..Len(r.discarded) : r.discarded[k].route = route}

\* C22: in every successful result each valid route is either a recommended
\* route (cheapest or fastest) and no discarded entry, or exactly one
\* discarded entry and not recommended, and every discarded entry is a valid
\* route; the reasons of a discarded entry are not empty and hold a price
\* reason iff the route costs more than the cheapest, a duration reason iff
\* it lasts longer than the fastest, and the fallback reason iff neither.
C22_RoutesPartitionedWithReasons ==
    SuccessfulResult =>
        LET c == Val(oresult.cheapest)
            f == Val(oresult.fastest)
        IN  /\ \A r \in ValidRoutes :
                  IF r \in {c, f}
                  THEN DiscardedEntriesOf(oresult, r.route) = {}
                  ELSE Cardinality(DiscardedEntriesOf(oresult, r.route)) = 1
            /\ \A k \in 1..Len(oresult.discarded) :
                  LET e == oresult.discarded[k]
                      r == complete_routes[e.at]
                  IN  /\ e.route = r.route
                      /\ e.total_price = r.total_price
                      /\ e.reasons # <<>>
                      /\ ReasonKinds(e) \subseteq {"price", "duration", "fallback"}
                      /\ "price" \in ReasonKinds(e) <=> r.total_price > c.total_price
                      /\ "duration" \in ReasonKinds(e)
                            <=> ~DurationLeq(r.total_duration_minutes,
                                             f.total_duration_minutes)
                      /\ "fallback" \in ReasonKinds(e)
                            <=> /\ ~(r.total_price > c.total_price)
                                /\ DurationLeq(r.total_duration_minutes,
                                               f.total_duration_minutes)

\* C22 witness: a successful result whose cheapest and fastest routes differ
\* and whose discarded entries include one with both a price and a duration
\* reason, one with a duration reason alone and one with the fallback reason
C22_Witness ==
    /\ SuccessfulResult
    /\ oresult.cheapest_at # oresult.fastest_at
    /\ \E k \in 1..Len(oresult.discarded) :
          ReasonKinds(oresult.discarded[k]) = {"price", "duration"}
    /\ \E k \in 1..Len(oresult.discarded) :
          ReasonKinds(oresult.discarded[k]) = {"duration"}
    /\ \E k \in 1..Len(oresult.discarded) :
          ReasonKinds(oresult.discarded[k]) = {"fallback"}

\* the date n days after a date
RECURSIVE DaysAfter(_, _)
DaysAfter(date, n) == IF n = 0 THEN date ELSE NextDay(DaysAfter(date, n - 1))
\* the leg search answers every city pair of the list, on every date a leg can
\* have, with one and the same single offer, whose price is present
SameSinglePricedOffer ==
    \E x \in CitySet, y \in CitySet :
        LET answer == AnswerFor(x, y, departure_date)
        IN  /\ Len(answer.options) = 1
            /\ Has(answer.options[1].price)
            /\ \A o \in CitySet, d \in CitySet, n \in 0..(NumCities - 2) :
                  AnswerFor(o, d, DaysAfter(departure_date, n)) = answer

\* C23: when the leg search answers every city pair and date with the same
\* single priced offer, the optimization of two or more (distinct) cities
\* returns a recommendation in which every permutation is a valid route, all
\* have the same totals, cheapest and fastest are the same permutation and
\* same_route is true; and in every recommendation same_route is true iff
\* cheapest and fastest are the same permutation.
C23_ConstantOfferSameRoute ==
    /\ (OptimizeReturned /\ EnoughCities /\ SameSinglePricedOffer) =>
          /\ IsRouteRecommendation(oresult)
          /\ Len(complete_routes) = Factorial(NumCities)
          /\ \A r \in ValidRoutes :
                /\ r.total_price = Val(oresult.cheapest).total_price
                /\ r.total_duration_minutes = Val(oresult.cheapest).total_duration_minutes
          /\ oresult.cheapest_at = oresult.fastest_at
          /\ oresult.same_route
    /\ SuccessfulResult =>
          (oresult.same_route <=> oresult.cheapest_at = oresult.fastest_at)

\* the duration of an offer is missing or does not match the duration grammar
DurationAnomaly(opt) ==
    ~Has(opt.duration) \/ parse_iso_duration_to_minutes(Val(opt.duration)) = Inf
\* a leg of a valid route was given an offer with a duration anomaly
ChosenLegHasDurationAnomaly ==
    \E r \in ValidRoutes : \E k \in 1..Len(r.legs) : DurationAnomaly(r.legs[k].option)

\* C24: when some permutation is a valid route (each of its legs has a priced
\* offer) and a chosen leg offer has a missing or unparseable duration, the
\* optimization still returns a recommendation, not an error, and its
\* cheapest route is the first valid route at the lowest total price.
C24_DurationAnomalyNeverFails ==
    (OptimizeReturned /\ ChosenLegHasDurationAnomaly) =>
        /\ IsRouteRecommendation(oresult)
        /\ Val(oresult.cheapest) \in ValidRoutes
        /\ \A r \in ValidRoutes :
              /\ Val(oresult.cheapest).total_price <= r.total_price
              /\ r.total_price = Val(oresult.cheapest).total_price
                    => PermutationIndex(Val(oresult.cheapest).route)
                          <= PermutationIndex(r.route)

(***************************************************************************)
(* search_all_transport (src/agent/tools.py 285-366) and the three mode    *)
(* searches it invokes (86-282).  A city name or code is a sequence of     *)
(* one-character strings.  The JSON text a tool returns is the payload it  *)
(* encodes: kind "error" ({"error": ...}), kind "message" (no flights,     *)
(* trains or buses: neither "error" nor "options") or kind "options".      *)
(***************************************************************************)
LowerLetters == <<"a", "c", "e", "i", "m", "n", "o", "p", "r", "s">>
UpperLetters == <<"A", "C", "E", "I", "M", "N", "O", "P", "R", "S">>

\* str.upper(), on the letters of the names of the model
upper(s) ==
    [k \in 1..Len(s) |->
        IF \E j \in 1..Len(LowerLetters) : LowerLetters[j] = s[k]
        THEN UpperLetters[CHOOSE j \in 1..Len(LowerLetters) : LowerLetters[j] = s[k]]
        ELSE s[k]]

Rome == <<"R", "o", "m", "e">>
ROME == <<"R", "O", "M", "E">>
Nice == <<"N", "i", "c", "e">>
par  == <<"p", "a", "r">>

\* the day number of a date in the proleptic Gregorian calendar
\* (date.toordinal()), in which timedelta(days=n) adds n
toordinal(date) ==
    LET y == date[1] - 1
        before == <<0, 31, 59, 90, 120, 151, 181, 212, 243, 273, 304, 334>>
    IN  365 * y + (y \div 4) - (y \div 100) + (y \div 400)
        + before[date[2]] + (IF date[2] > 2 /\ IsLeap(date[1]) THEN 1 ELSE 0)
        + date[3]

\* datetime comparison of two dates at midnight
DateBefore(a, b) ==
    \/ a[1] < b[1]
    \/ a[1] = b[1] /\ a[2] < b[2]
    \/ a[1] = b[1] /\ a[2] = b[2] /\ a[3] < b[3]

\* validate_date(date_str): "ok", or why the date is refused.  strptime
\* raises ValueError on a date that is not in the calendar; today is
\* datetime.now() cut to midnight
validate_date(date, today) ==
    IF ~(date[2] \in 1..12 /\ date[3] \in 1..DaysInMonth(date[1], date[2]))
    THEN "Invalid date format"
    ELSE IF DateBefore(date, today)
    THEN "Date is in the past"
    ELSE IF toordinal(date) > toordinal(today) + 330
    THEN "Date is too far in the future"
    ELSE "ok"

ErrorPayload(msg) == [kind |-> "error", error |-> msg, options |-> <<>>]
MessagePayload == [kind |-> "message", error |-> "", options |-> <<>>]
OptionsPayload(offers) == [kind |-> "options", error |-> "", options |-> offers]

\* flight_api.get_city_iata_code(name) as the flight search sees it: a name
\* of more than three letters is looked up and the lookup may find nothing
iata_code_for(name, code) == IF Len(name) > 3 THEN code ELSE Some(upper(name))

\* the tool search_flights (lines 86-186) for the arguments and the
\* environment w
search_flights_tool(w) ==
    IF validate_date(w.date, w.today) # "ok" THEN ErrorPayload("Invalid departure date")
    ELSE IF ~w.credentials THEN ErrorPayload("Amadeus API credentials not configured")
    ELSE IF upper(w.origin) = upper(w.destination)
    THEN ErrorPayload("Origin and destination must be different")
    ELSE IF ~Has(iata_code_for(w.origin, w.origin_code))
    THEN ErrorPayload("Could not find IATA code for origin")
    ELSE IF ~Has(iata_code_for(w.destination, w.destination_code))
    THEN ErrorPayload("Could not find IATA code for destination")
    ELSE IF w.flights.raises THEN ErrorPayload("exception")
    ELSE IF w.flights.offers = <<>> THEN MessagePayload
    ELSE OptionsPayload(w.flights.offers)

\* the tool search_trains (lines 189-234); train_api.search_trains catches
\* every exception itself and returns a list
search_trains_tool(w) ==
    IF w.trains = <<>> THEN MessagePayload ELSE OptionsPayload(w.trains)

\* the tool search_buses (lines 237-282); bus_api.search_buses catches every
\* exception itself and returns a list
search_buses_tool(w) ==
    IF w.buses = <<>> THEN MessagePayload ELSE OptionsPayload(w.buses)

\* if "options" in data: all_options.extend(data["options"])
extend_with(options, payload) ==
    IF payload.kind = "options" THEN options \o payload.options ELSE options

\* the key of the sort: x.get('price') or float('inf')
price_key(x) == IF Has(x.price) /\ Val(x.price) # 0 THEN Val(x.price) ELSE Inf

\* list.sort(key=...) is stable: an element goes after every element whose
\* key is not greater than its own
insert_by_key(sorted, x) ==
    LET k == Cardinality({i \in 1..Len(sorted) :
                             ~FloatLess(price_key(x), price_key(sorted[i]))})
    IN  SubSeq(sorted, 1, k) \o <<x>> \o SubSeq(sorted, k + 1, Len(sorted))

RECURSIVE sort_by_price(_)
sort_by_price(options) ==
    IF options = <<>> THEN <<>>
    ELSE insert_by_key(sort_by_price(SubSeq(options, 1, Len(options) - 1)),
                       options[Len(options)])

\* the environment of one call
FlightCheap == LegOffer("flight", Some(8000), Some(PT2H30M), <<"VY9">>)
Today == <<2024, 2, 27>>
SearchDates == {<<2024, 3, 1>>, <<2024, 2, 26>>, <<2025, 12, 30>>, <<2024, 2, 30>>}
Places == {<<Rome, Nice>>, <<Rome, ROME>>, <<par, Nice>>}
FlightAnswers ==
    {[raises |-> TRUE, offers |-> <<>>],
     [raises |-> FALSE, offers |-> <<>>],
     [raises |-> FALSE, offers |-> <<FlightDearFast>>],
     [raises |-> FALSE, offers |-> <<FlightDearFast, FlightCheap>>]}
TrainAnswers == {<<>>, <<TrainNoPrice>>, <<TrainMid, TrainNoPrice>>}
BusAnswers ==
    {<<>>, <<BusCheapSlow>>, <<BusFree>>, <<BusCheapSlow, BusFree>>, <<BusNoDuration>>}
Lookups == {<<Some("ROM"), Some("NCE")>>, <<Some("ROM"), Absent>>, <<Absent, Some("NCE")>>}

\* a search_all_transport that gives up at the first mode without options
next_mode_stop_on_failure(payload, mode) == IF payload.kind = "options" THEN mode ELSE "sort"
\* the statement after a mode search: the next mode search, whatever the
\* payload of this one
next_mode(payload, mode) == mode

InitSearchAll ==
    /\ \E place \in Places, lookup \in Lookups :
          sw \in [date : SearchDates, today : {Today}, credentials : BOOLEAN,
                  origin : {place[1]}, destination : {place[2]},
                  origin_code : {lookup[1]}, destination_code : {lookup[2]},
                  flights : FlightAnswers, trains : TrainAnswers, buses : BusAnswers]
    /\ spc = "flights"
    /\ all_options = <<>>
    /\ mode_calls = <<>>
    /\ sresult = [kind |-> "none"]
    /\ AnalyzeIdle
    /\ ParseIdle
    /\ OptimizeIdle
    /\ StoreIdle
    /\ AmadeusIdle

\* lines 322-330: search_flights.invoke, with max_results 3
SearchAllFlights ==
    /\ spc = "flights"
    /\ LET flights_data == search_flights_tool(sw)
       IN  /\ mode_calls' = Append(mode_calls, [mode |-> "flights", data |-> flights_data])
           /\ all_options' = extend_with(all_options, flights_data)
           /\ spc' = next_mode(flights_data, "trains")
    /\ UNCHANGED <<sw, sresult, avars, pvars, ovars, fvars, mvars>>

\* lines 333-341: search_trains.invoke
SearchAllTrains ==
    /\ spc = "trains"
    /\ LET trains_data == search_trains_tool(sw)
       IN  /\ mode_calls' = Append(mode_calls, [mode |-> "trains", data |-> trains_data])
           /\ all_options' = extend_with(all_options, trains_data)
           /\ spc' = next_mode(trains_data, "buses")
    /\ UNCHANGED <<sw, sresult, avars, pvars, ovars, fvars, mvars>>

\* lines 344-352: search_buses.invoke
SearchAllBuses ==
    /\ spc = "buses"
    /\ LET buses_data == search_buses_tool(sw)
       IN  /\ mode_calls' = Append(mode_calls, [mode |-> "buses", data |-> buses_data])
           /\ all_options' = extend_with(all_options, buses_data)
           /\ spc' = "sort"
    /\ UNCHANGED <<sw, sresult, avars, pvars, ovars, fvars, mvars>>

\* lines 355-363: the sort and the payload returned
SearchAllReturn ==
    /\ spc = "sort"
    /\ all_options' = sort_by_price(all_options)
    /\ sresult' = [kind |-> "result", origin |-> sw.origin, destination |-> sw.destination,
                   date |-> sw.date, total_options |-> Len(all_options'),
                   options |-> all_options']
    /\ spc' = "done"
    /\ UNCHANGED <<sw, mode_calls, avars, pvars, ovars, fvars, mvars>>

NextSearchAll ==
    \/ SearchAllFlights
    \/ SearchAllTrains
    \/ SearchAllBuses
    \/ SearchAllReturn

SpecSearchAll == InitSearchAll /\ [][NextSearchAll]_vars

(***************************************************************************)
(* Properties of search_all_transport.                                     *)
(***************************************************************************)
SearchAllReturned == spc = "done"
\* the options the mode searches returned, in the order of the searches
RECURSIVE OptionsReturnedBy(_, _)
OptionsReturnedBy(calls, k) ==
    IF k = 0 THEN <<>>
    ELSE OptionsReturnedBy(calls, k - 1) \o calls[k].data.options
Occurrences(seq, x) == Cardinality({k \in 1..Len(seq) : seq[k] = x})
SameOptions(a, b) ==
    /\ Len(a) = Len(b)
    /\ \A k \in 1..Len(a) : Occurrences(a, a[k]) = Occurrences(b, a[k])

\* C25: search_all_transport returns exactly the options the flight, train
\* and bus searches returned, total_options is their number, and they are in
\* ascending order of price with every option without a price after every
\* option with one.
C25_AllOptionsInPriceOrder ==
    SearchAllReturned =>
        /\ sresult.kind = "result"
        /\ SameOptions(sresult.options, OptionsReturnedBy(mode_calls, Len(mode_calls)))
        /\ sresult.total_options = Len(sresult.options)
        /\ \A i \in 1..Len(sresult.options) : \A j \in (i + 1)..Len(sresult.options) :
              LET a == sresult.options[i]
                  b == sresult.options[j]
              IN  /\ (Has(a.price) /\ Has(b.price)) => Val(a.price) <= Val(b.price)
                  /\ ~Has(a.price) => ~Has(b.price)

\* the payload of search_all_transport as optimize_multi_city_route decodes it
DecodedLegAnswer(r) == [hasOptions |-> r.kind = "result", options |-> r.options]
ModesCalled == [k \in 1..Len(mode_calls) |-> mode_calls[k].mode]
NoModeGaveOptions == \A k \in 1..Len(mode_calls) : mode_calls[k].data.kind # "options"

\* C30: whatever the mode searches return (an error payload for an invalid
\* date, missing credentials, an unknown city or an exception, or a payload
\* without options), search_all_transport invokes the flight, train and bus
\* searches, in this order, and returns a payload that is not an error, with
\* the options of the searches that returned some; when none did, its
\* total_options is 0 and the optimizer rejects it as a leg.
C30_ModeFailureNeverFailsSearch ==
    /\ \E n \in 0..3 : ModesCalled = SubSeq(<<"flights", "trains", "buses">>, 1, n)
    /\ SearchAllReturned =>
          /\ ModesCalled = <<"flights", "trains", "buses">>
          /\ sresult.kind = "result"
          /\ SameOptions(sresult.options, OptionsReturnedBy(mode_calls, 3))
          /\ sresult.total_options = Len(sresult.options)
          /\ NoModeGaveOptions =>
                /\ sresult.total_options = 0
                /\ LegRejected(DecodedLegAnswer(sresult))

\* C30 witness: the flight search failed for missing credentials, the train
\* search found nothing, and the result holds the two buses found
C30_Witness ==
    /\ SearchAllReturned
    /\ mode_calls[1].data = ErrorPayload("Amadeus API credentials not configured")
    /\ mode_calls[2].data = MessagePayload
    /\ mode_calls[3].data.kind = "options"
    /\ sresult.kind = "result"
    /\ sresult.total_options = 2

(***************************************************************************)
(* The file-backed itinerary store, SimplifiedFilesystemTools              *)
(* (src/mcp_client/client.py 196-246).  A file name is a sequence of       *)
(* pieces of text, ".json" being one piece; the other pieces hold no dot.  *)
(* The text of a file is the JSON text of a value, or the beginning of     *)
(* one, left by a write that failed.                                       *)
(***************************************************************************)
\* json.dump(content, f, indent=2, ensure_ascii=False), of a value decoded
\* from JSON
json_dump(content) == <<"{", content, "}">>
\* the text left in the file when the write raises
PartialText == <<"{">>
\* json.load(f) raises on a text that is not complete
json_load_raises(text) == ~(Len(text) = 3 /\ text[1] = "{" /\ text[3] = "}")
json_load(text) == text[2]

\* os.path.join(self.base_path, f"{filename}.json"), within base_path
filepath(filename) == filename \o <<".json">>

\* f.endswith('.json')
endswith_json(f) == Len(f) >= 1 /\ f[Len(f)] = ".json"
\* f.replace('.json', ''): every occurrence is removed
replace_json(f) == SelectSeq(f, LAMBDA piece : piece # ".json")

\* the directory after open(filepath, 'w') and a write of text
write_file(dir, f, text) ==
    [g \in DOMAIN dir \cup {f} |-> IF g = f THEN text ELSE dir[g]]

\* save_itinerary(filename, content): the directory it leaves and what it
\* returns.  io is what the file system does: "ok", "open fails" (open
\* raises, nothing is written) or "write fails" (the file is opened, which
\* truncates it, and the write raises)
save_itinerary(dir, filename, content, io) ==
    IF io = "ok"
    THEN [dir |-> write_file(dir, filepath(filename), json_dump(content)), returned |-> TRUE]
    ELSE IF io = "write fails"
    THEN [dir |-> write_file(dir, filepath(filename), PartialText), returned |-> FALSE]
    ELSE [dir |-> dir, returned |-> FALSE]

\* read_itinerary(filename): the value read, or None on any exception
read_itinerary(dir, filename) ==
    IF filepath(filename) \notin DOMAIN dir THEN Absent
    ELSE IF json_load_raises(dir[filepath(filename)]) THEN Absent
    ELSE Some(json_load(dir[filepath(filename)]))

\* list_itineraries(): the names listed (os.listdir gives them in any order)
list_itineraries(dir) == {replace_json(f) : f \in {g \in DOMAIN dir : endswith_json(g)}}

\* the names and the values of the model
ItineraryNames == {<<"trip">>, <<"rome">>, <<"trip", ".json">>}
Itineraries ==
    {[test |-> "data", origin |-> "Paris", destination |-> "Berlin"],
     [test |-> "data", origin |-> "Rome", destination |-> "Nice"]}
FileSystemOutcomes == {"ok", "open fails", "write fails"}

InitStore ==
    /\ files = <<>>
    /\ files_before = <<>>
    /\ fs_op = [op |-> "none"]
    /\ ever_saved = {}
    /\ AnalyzeIdle
    /\ ParseIdle
    /\ OptimizeIdle
    /\ SearchAllIdle
    /\ AmadeusIdle

SaveItinerary ==
    \E filename \in ItineraryNames, content \in Itineraries, io \in FileSystemOutcomes :
        LET saved == save_itinerary(files, filename, content, io)
        IN  /\ files' = saved.dir
            /\ files_before' = files
            /\ fs_op' = [op |-> "save", filename |-> filename, content |-> content,
                         returned |-> saved.returned]
            /\ ever_saved' = ever_saved \cup {filename}
            /\ UNCHANGED <<avars, pvars, ovars, svars, mvars>>

ReadItinerary ==
    \E filename \in ItineraryNames :
        /\ fs_op' = [op |-> "read", filename |-> filename,
                     returned |-> read_itinerary(files, filename)]
        /\ files_before' = files
        /\ UNCHANGED <<files, ever_saved, avars, pvars, ovars, svars, mvars>>

ListItineraries ==
    /\ fs_op' = [op |-> "list", returned |-> list_itineraries(files)]
    /\ files_before' = files
    /\ UNCHANGED <<files, ever_saved, avars, pvars, ovars, svars, mvars>>

NextStore ==
    \/ SaveItinerary
    \/ ReadItinerary
    \/ ListItineraries

SpecStore == InitStore /\ [][NextStore]_vars

(***************************************************************************)
(* Properties of the itinerary store.                                      *)
(***************************************************************************)
SaveSucceeded == fs_op.op = "save" /\ fs_op.returned

\* C26: after a save_itinerary(name, data) that succeeded, read_itinerary(name)
\* returns data (whatever was stored under the name before), the names
\* list_itineraries lists include name, and a read of any other name returns
\* what it returned before the save; a read of a name that save_itinerary
\* was never called with returns no data.
C26_SaveReadListAgree ==
    /\ SaveSucceeded =>
          /\ read_itinerary(files, fs_op.filename) = Some(fs_op.content)
          /\ fs_op.filename \in list_itineraries(files)
          /\ \A other \in ItineraryNames \ {fs_op.filename} :
                read_itinerary(files, other) = read_itinerary(files_before, other)
    /\ (fs_op.op = "read" /\ fs_op.filename \notin ever_saved) =>
          fs_op.returned = Absent

(***************************************************************************)
(* AmadeusFlightAPI (src/apis/amadeus.py): the rate limiter, the flight    *)
(* search and the cached IATA lookup.  The tools of the agent share one    *)
(* instance and the class attributes _last_request_time and _iata_cache,   *)
(* and the tool node of the agent runs the tool calls of one model turn in *)
(* threads, so calls interleave between statements.  Time is counted in    *)
(* quarters of a second.                                                   *)
(***************************************************************************)
\* _min_request_interval = 0.5
MinRequestInterval == 2
\* the clock of the model stops here
MaxClock == 5
\* time.time() at the first call: far more than the interval after 0
FirstCallTime == MinRequestInterval

Callers == {"a", "b"}

\* the names looked up, and the answers of the locations endpoint
CityNamesTyped == {Rome, ROME, Nice}
Location(t, code) == [subType |-> t, iataCode |-> code]
LocationData(city_name) ==
    IF upper(city_name) = ROME
    THEN {<<>>,
          <<Location("AIRPORT", "FCO"), Location("CITY", "ROM")>>,
          <<Location("AIRPORT", "FCO"), Location("AIRPORT", "CIA")>>}
    ELSE {<<>>,
          <<Location("AIRPORT", "NCE"), Location("CITY", "NCE")>>}
LookupResponses(city_name) ==
    {[kind |-> "data", data |-> d, status |-> 200] : d \in LocationData(city_name)}
    \cup {[kind |-> "error", data |-> <<>>, status |-> st] : st \in {429, 500}}
SearchResponses ==
    {[kind |-> "data", data |-> <<>>, status |-> 200],
     [kind |-> "error", data |-> <<>>, status |-> 500]}

\* common_codes, cut to the names of the model
common_codes == [k \in {ROME} |-> "ROM"]

\* the code taken from a non-empty response.data: of the first CITY, or else
\* of the first location
code_of(locations) ==
    IF \E k \in 1..Len(locations) : locations[k].subType = "CITY"
    THEN locations[CHOOSE k \in 1..Len(locations) :
                      /\ locations[k].subType = "CITY"
                      /\ \A j \in 1..(k - 1) : locations[j].subType # "CITY"].iataCode
    ELSE locations[1].iataCode

\* the fallback of the except branch
fallback_code(cache_key) ==
    IF cache_key \in DOMAIN common_codes THEN Some(common_codes[cache_key]) ELSE Absent

\* a lookup that caches the failure of a rate-limited request as well
lookup_outcome_caching_429(cache_key, response) ==
    IF response.kind = "data"
    THEN [store |-> TRUE,
          value |-> IF response.data # <<>> THEN Some(code_of(response.data)) ELSE Absent]
    ELSE [store |-> TRUE, value |-> fallback_code(cache_key)]

\* lines 204-261: what get_city_iata_code returns for a response of the
\* provider, and whether it stores it in the cache
lookup_outcome(cache_key, response) ==
    IF response.kind = "data"
    THEN [store |-> TRUE,
          value |-> IF response.data # <<>> THEN Some(code_of(response.data)) ELSE Absent]
    ELSE IF response.status = 429
    THEN [store |-> FALSE, value |-> Absent]
    ELSE [store |-> TRUE, value |-> fallback_code(cache_key)]

\* AmadeusFlightAPI._iata_cache[cache_key] = value
cache_store(cache, cache_key, value) ==
    [k \in DOMAIN cache \cup {cache_key} |-> IF k = cache_key THEN value ELSE cache[k]]

NoCall == [method |-> "none", city_name |-> <<>>, wake |-> 0]
NoReturn == [caller |-> "", method |-> "none", city_name |-> <<>>,
             response |-> "none", value |-> Absent]
NoRequest == [method |-> "none", at |-> 0, limited |-> FALSE]

InitAmadeus ==
    /\ now = FirstCallTime
    /\ last_request_time = 0
    /\ iata_cache = <<>>
    /\ mpc = [c \in Callers |-> "idle"]
    /\ mcall = [c \in Callers |-> NoCall]
    /\ latest_request = NoRequest
    /\ ret = NoReturn
    /\ AnalyzeIdle
    /\ ParseIdle
    /\ OptimizeIdle
    /\ SearchAllIdle
    /\ StoreIdle

\* time passes
Tick ==
    /\ now < MaxClock
    /\ now' = now + 1
    /\ ret' = NoReturn
    /\ UNCHANGED <<last_request_time, iata_cache, mpc, mcall, latest_request,
                   avars, pvars, ovars, svars, fvars>>

\* search_flights is called (lines 46-74)
CallSearchFlights ==
    \E c \in Callers :
        /\ mpc[c] = "idle"
        /\ mcall' = [mcall EXCEPT ![c] = [NoCall EXCEPT !.method = "search_flights"]]
        /\ mpc' = [mpc EXCEPT ![c] = "limit"]
        /\ ret' = NoReturn
        /\ UNCHANGED <<now, last_request_time, iata_cache, latest_request,
                       avars, pvars, ovars, svars, fvars>>

\* get_city_iata_code is called (lines 181-201): a cached name returns at once
CallGetCityIataCode ==
    \E c \in Callers, city_name \in CityNamesTyped :
        LET cache_key == upper(city_name)
        IN  /\ mpc[c] = "idle"
            /\ IF cache_key \in DOMAIN iata_cache
               THEN /\ ret' = [caller |-> c, method |-> "get_city_iata_code",
                               city_name |-> city_name, response |-> "cached",
                               value |-> iata_cache[cache_key]]
                    /\ UNCHANGED <<mpc, mcall>>
               ELSE /\ ret' = NoReturn
                    /\ mcall' = [mcall EXCEPT ![c] =
                                    [NoCall EXCEPT !.method = "get_city_iata_code",
                                                   !.city_name = city_name]]
                    /\ mpc' = [mpc EXCEPT ![c] = "limit"]
            /\ UNCHANGED <<now, last_request_time, iata_cache, latest_request,
                           avars, pvars, ovars, svars, fvars>>

\* _rate_limit, lines 36-41: the clock and the last request time are read
RateLimitCheck ==
    \E c \in Callers :
        /\ mpc[c] = "limit"
        /\ LET current_time == now
               time_since_last == current_time - last_request_time
           IN  IF time_since_last < MinRequestInterval
               THEN /\ mcall' = [mcall EXCEPT ![c].wake =
                                    now + (MinRequestInterval - time_since_last)]
                    /\ mpc' = [mpc EXCEPT ![c] = "sleep"]
               ELSE /\ mpc' = [mpc EXCEPT ![c] = "stamp"]
                    /\ UNCHANGED mcall
        /\ ret' = NoReturn
        /\ UNCHANGED <<now, last_request_time, iata_cache, latest_request,
                       avars, pvars, ovars, svars, fvars>>

\* _rate_limit, line 42: time.sleep(sleep_time) returns
Sleep ==
    \E c \in Callers :
        /\ mpc[c] = "sleep"
        /\ now >= mcall[c].wake
        /\ mcall' = [mcall EXCEPT ![c].wake = 0]
        /\ mpc' = [mpc EXCEPT ![c] = "stamp"]
        /\ ret' = NoReturn
        /\ UNCHANGED <<now, last_request_time, iata_cache, latest_request,
                       avars, pvars, ovars, svars, fvars>>

\* _rate_limit, line 44: AmadeusFlightAPI._last_request_time = time.time()
Stamp ==
    \E c \in Callers :
        /\ mpc[c] = "stamp"
        /\ last_request_time' = now
        /\ mpc' = [mpc EXCEPT ![c] = "request"]
        /\ ret' = NoReturn
        /\ UNCHANGED <<now, iata_cache, mcall, latest_request,
                       avars, pvars, ovars, svars, fvars>>

\* lines 89 and 205: the request goes out, after _rate_limit
SendRequest ==
    \E c \in Callers :
        /\ mpc[c] = "request"
        /\ latest_request' = [method |-> mcall[c].method, at |-> now, limited |-> TRUE]
        /\ mpc' = [mpc EXCEPT ![c] = "response"]
        /\ ret' = NoReturn
        /\ UNCHANGED <<now, last_request_time, iata_cache, mcall,
                       avars, pvars, ovars, svars, fvars>>

\* lines 91-130: the flight search returns the offers, or [] on ResponseError
ReceiveFlights ==
    \E c \in Callers, response \in SearchResponses :
        /\ mpc[c] = "response"
        /\ mcall[c].method = "search_flights"
        /\ ret' = [caller |-> c, method |-> "search_flights", city_name |-> <<>>,
                   response |-> response.kind, value |-> Absent]
        /\ mcall' = [mcall EXCEPT ![c] = NoCall]
        /\ mpc' = [mpc EXCEPT ![c] = "idle"]
        /\ UNCHANGED <<now, last_request_time, iata_cache, latest_request,
                       avars, pvars, ovars, svars, fvars>>

\* lines 210-261: the lookup handles the response
ReceiveLocations ==
    \E c \in Callers : \E response \in LookupResponses(mcall[c].city_name) :
        LET cache_key == upper(mcall[c].city_name)
            outcome == lookup_outcome(cache_key, response)
        IN  /\ mpc[c] = "response"
            /\ mcall[c].method = "get_city_iata_code"
            /\ iata_cache' = IF outcome.store
                             THEN cache_store(iata_cache, cache_key, outcome.value)
                             ELSE iata_cache
            /\ ret' = [caller |-> c, method |-> "get_city_iata_code",
                       city_name |-> mcall[c].city_name,
                       response |-> IF response.kind = "data" THEN "data"
                                    ELSE IF response.status = 429 THEN "rate limited"
                                    ELSE "error",
                       value |-> outcome.value]
            /\ mcall' = [mcall EXCEPT ![c] = NoCall]
            /\ mpc' = [mpc EXCEPT ![c] = "idle"]
            /\ UNCHANGED <<now, last_request_time, latest_request,
                           avars, pvars, ovars, svars, fvars>>

NextAmadeus ==
    \/ Tick
    \/ CallSearchFlights
    \/ CallGetCityIataCode
    \/ RateLimitCheck
    \/ Sleep
    \/ Stamp
    \/ SendRequest
    \/ ReceiveFlights
    \/ ReceiveLocations

SpecAmadeus == InitAmadeus /\ [][NextAmadeus]_vars

(***************************************************************************)
(* Properties of AmadeusFlightAPI.                                         *)
(***************************************************************************)
\* the step taken sends a request of caller c to the provider
RequestSentBy(c) == mpc[c] = "request" /\ mpc'[c] = "response"
\* the step taken is a call of get_city_iata_code by caller c
LookupCalledBy(c) ==
    /\ mpc[c] = "idle"
    /\ \/ mpc'[c] = "limit" /\ mcall'[c].method = "get_city_iata_code"
       \/ ret'.caller = c /\ ret'.response = "cached"
\* the step taken returns from get_city_iata_code, with the answer of the
\* provider named
LookupReturned(answer) ==
    /\ ret'.method = "get_city_iata_code"
    /\ ret'.response = answer
    /\ \E c \in Callers : mpc[c] = "response" /\ mpc'[c] = "idle"

\* C27: every request sent to the provider, flight search or IATA lookup,
\* was preceded in its call by _rate_limit, and starts at least the minimum
\* request interval after the request sent before it, however the calls of
\* the callers interleave.
C27_RequestsSpacedByInterval ==
    [][\A c \in Callers :
          RequestSentBy(c) =>
              /\ latest_request'.limited
              /\ latest_request.method # "none" =>
                    latest_request'.at - latest_request.at >= MinRequestInterval]_vars

\* C28: an entry of the IATA cache, once stored, keeps its value and stays in
\* the cache; a lookup of a name whose upper-case form is in the cache, by
\* any caller and in any letter case, returns the stored value in the same
\* step, without a request and without a change of the last request time,
\* and only such a lookup is answered from the cache.
C28_CachedEntryIsFinal ==
    [][/\ \A k \in DOMAIN iata_cache :
             k \in DOMAIN iata_cache' /\ iata_cache'[k] = iata_cache[k]
       /\ \A c \in Callers :
             LookupCalledBy(c) =>
                 IF ret'.response = "cached"
                 THEN /\ upper(ret'.city_name) \in DOMAIN iata_cache
                      /\ ret'.value = iata_cache[upper(ret'.city_name)]
                      /\ UNCHANGED <<latest_request, last_request_time>>
                 ELSE upper(mcall'[c].city_name) \notin DOMAIN iata_cache]_vars

\* C29: a lookup answered with status 429 returns no code and leaves the
\* IATA cache as it was; a lookup answered with any other error returns
\* the code of the common-code table for the upper-case name, or no code
\* when the table has none, and stores what it returns in the cache; and a
\* lookup of a name that is not in the cache is not answered from the cache
\* but goes on to the rate limiter and a request.
C29_RateLimitedLookupNotCached ==
    [][/\ LookupReturned("rate limited") =>
             /\ ret'.value = Absent
             /\ iata_cache' = iata_cache
       /\ LookupReturned("error") =>
             LET cache_key == upper(ret'.city_name)
                 code == IF cache_key \in DOMAIN common_codes
                         THEN Some(common_codes[cache_key]) ELSE Absent
             IN  /\ ret'.value = code
                 /\ cache_key \in DOMAIN iata_cache'
                 /\ iata_cache'[cache_key] = code
       /\ \A c \in Callers, city_name \in CityNamesTyped :
             (/\ LookupCalledBy(c)
              /\ upper(city_name) \notin DOMAIN iata_cache
              /\ city_name \in {ret'.city_name, mcall'[c].city_name})
             => (mpc'[c] = "limit" /\ ret'.response # "cached")]_vars

\* C29 witness: a lookup of Rome has just been answered with status 429 and
\* ROME is not in the cache, after a lookup of Nice that failed with
\* another error stored "not found" for NICE
C29_Witness ==
    /\ ret.method = "get_city_iata_code"
    /\ ret.response = "rate limited"
    /\ ret.city_name = Rome
    /\ ret.value = Absent
    /\ DOMAIN iata_cache = {upper(Nice)}
    /\ iata_cache[upper(Nice)] = Absent

====
